---- MODULE Spec2Model ----
(***************************************************************************)
(* A model of the xv6 kernel core: the buffer cache (kernel/bio.c), the    *)
(* redo log (kernel/log.c), the pipe (kernel/pipe.c), the page allocator   *)
(* (kernel/kalloc.c), spin and sleep locks (kernel/spinlock.c,             *)
(* kernel/sleeplock.c), exec (kernel/exec.c) and traps (kernel/trap.c).    *)
(*                                                                         *)
(* The specifications share one state:                                     *)
(*   SpecLog   - file-system operations, group commit, power cuts, recovery*)
(*   SpecGroup - operations that fill the log, without power cuts          *)
(*   SpecAdmit - the same group with one block per modification;           *)
(*               SpecAdmitFair adds the scheduler's and the disk's progress*)
(*   SpecBio   - processes racing on bread/brelse/bpin/bunpin              *)
(*   SpecLru   - the cache with the history of releases                    *)
(*   SpecExcl  - bread/bwrite/brelse and the buffer's sleep lock           *)
(*   SpecPipe  - writers, readers, close and kill on one pipe              *)
(*   SpecShare - two writers and two readers on one pipe; SpecShareFair    *)
(*               adds scheduling and the spinlock's progress               *)
(*   SpecMem   - kalloc/kfree on two CPUs                                  *)
(*   SpecSpin  - acquire/release/push_off/pop_off                          *)
(*   SpecSleep - acquiresleep/releasesleep; SpecSleepFair adds scheduling  *)
(*   SpecExec  - exec with every failure point                             *)
(*   SpecTrap  - usertrap, usertrapret and interrupts in the kernel        *)
(***************************************************************************)
EXTENDS Integers, Sequences, FiniteSets, TLC

(***************************************************************************)
(* Sizes.  The kernel's NBUF, LOGSIZE, MAXOPBLOCKS (param.h) and PIPESIZE  *)
(* are scaled down so that the state space is finite and small.            *)
(***************************************************************************)
\* param.h MAXOPBLOCKS: distinct blocks one operation may log (scaled down)
MAXOPBLOCKS == 1
\* param.h LOGSIZE: slots of the log header (scaled down)
LOGSIZE == 3
\* param.h NBUF: the number of buffers (scaled down)
NBUF == 3
\* number of home (data) blocks the operations write
NHOME == 2
\* number of modifications of a buffer in one run
MaxStamp == 2
\* number of power cuts in one run
MaxCrash == 2

\* param.h MAXARG: the most arguments exec takes (scaled down)
MAXARG == 2
\* the most program headers of an ELF file passed to exec
MaxSeg == 1
\* bytes of a page
PGSIZE == 4096

\* deepest push_off nesting a CPU enters
MaxNoff == 2

\* number of traps from user mode in one run
MaxTrap == 2

\* number of page frames in [end, PHYSTOP)
NFRAMES == 3

\* pipe.c PIPESIZE: bytes of the ring (scaled down)
PIPESIZE == 2
\* number of bytes the writer stores in one run
MaxBytes == 3

\* number of bwrite calls that reach the disk in one run of SpecExcl
MaxWrite == 1

\* number of buffers a process of SpecBio has pinned at a time
MaxPin == 1

\* sb->logstart: the block of the log header
LogStart == 2
\* the log's device (initlog's dev argument)
DEV == 1
\* sb->nlog: blocks of the log region, header included
NLOG == LOGSIZE + 1

Procs == {1, 2}
Bufs == 1..NBUF
LogBody == (LogStart + 1)..(LogStart + LOGSIZE)
Home == (LogStart + LOGSIZE + 1)..(LogStart + LOGSIZE + NHOME)
\* the home blocks a group of operations writes when it fills the cache
\* with pinned buffers: as many as there are buffers
GroupHome == (LogStart + LOGSIZE + 1)..(LogStart + LOGSIZE + NBUF)
AllHome == Home \cup GroupHome
Blocks == {LogStart} \cup LogBody \cup AllHome

VARIABLES
    disk,       \* block number -> contents on the device
    buf,        \* bcache.buf: buffer index -> struct buf
    lru,        \* the list through head.next: most recently released first
    dtrace,     \* the disk writes since the last boot / start of commit
    panicked,   \* panic() was called: the kernel has halted
    log,        \* struct log
    proc,       \* the file-system processes: pc, held buffer, loop index
    boot,       \* initlog at boot: pc, loop index, the n that read_head read
    opS,        \* blocks each process has passed to log_write in its operation
    stamp,      \* the number of buffer modifications so far
    crashes,    \* the number of power cuts so far
    tx,         \* the transaction being committed: blocks, pre/post contents
    cut,        \* what the last power cut interrupted
    bp,         \* SpecBio: the processes using the buffer cache
    bhist,      \* SpecLru: the buffers with refcnt 0 in the order their
                \* refcnt fell to 0 (zero), and all buffers in the order a
                \* brelse last brought their refcnt to 0 (rel)
    pipe,       \* struct pipe
    pp,         \* SpecPipe: the processes using the pipe
    pstream,    \* SpecPipe: bytes offered, stored, accepted, delivered so far
    pkilled,    \* SpecPipe: the processes whose killed flag is set
    kmem,       \* struct kmem: freelist head and the holder of kmem.lock
    kframe,     \* the first machine word of every frame (struct run's next)
    kp,         \* SpecMem: the CPUs inside or between kalloc/kfree calls
    korder,     \* SpecMem: the free frames in the order kfree pushed them
    slk,        \* SpecSpin: the spinlocks: locked, cpu
    scpu,       \* SpecSpin: struct cpu (noff, intena), the interrupt-enable
                \* bit, and where the CPU is in acquire/release/push_off/pop_off
    ex,         \* SpecExec: the locals of the exec call in progress
    eproc,      \* SpecExec: the calling struct proc
    epts,       \* SpecExec: the page tables: allocated or not, pages mapped
    sl,         \* SpecSleep: struct sleeplock: locked, pid, holder of lk->lk
    sp,         \* SpecSleep: where each process is in acquiresleep/releasesleep
    ut          \* SpecTrap: one process and its CPU: stvec, sepc, scause, the
                \* interrupt-enable bit, the trap frame's epc, the killed
                \* flag, and where the process is in usertrap/usertrapret

cacheVars == <<disk, buf, lru, dtrace, panicked>>
logVars == <<log, proc, boot, opS, stamp, crashes, tx, cut>>
bioVars == <<bp, bhist>>
pipeVars == <<pipe, pp, pstream, pkilled>>
memVars == <<kmem, kframe, kp, korder>>
spinVars == <<slk, scpu>>
execVars == <<ex, eproc, epts>>
sleepVars == <<sl, sp>>
trapVars == <<ut>>
restVars == <<sleepVars, trapVars>>
vars == <<disk, buf, lru, dtrace, panicked, log, proc, boot, opS, stamp,
          crashes, tx, cut, bp, bhist, pipe, pp, pstream, pkilled,
          kmem, kframe, kp, korder, slk, scpu, ex, eproc, epts, sl, sp,
          ut>>

(***************************************************************************)
(* The disk and the buffer cache (bio.c).                                  *)
(***************************************************************************)
\* uninitialised slots of the header's block[] array
NoBlocks == [i \in 1..LOGSIZE |-> 0]
EmptyHead == [n |-> 0, block |-> NoBlocks]

\* a freshly made file system: an empty log, zeroed blocks
FreshDisk == [b \in Blocks |-> IF b = LogStart THEN EmptyHead ELSE 0]

\* struct buf after binit: zeroed, sleep lock free (holder pid 0)
ZeroBuf == [dev |-> 0, blockno |-> 0, valid |-> 0, refcnt |-> 0,
            locked |-> 0, data |-> 0]

\* binit pushes buf[0], buf[1], ... at head.next: the last pushed is first
BinitList == [i \in 1..NBUF |-> NBUF + 1 - i]

\* the cache and disk as one value, threaded through a sequence of calls;
\* ret is the buffer a call returns, blocked says the caller must sleep
IOState == [buf |-> buf, lru |-> lru, disk |-> disk, tr |-> dtrace,
            panic |-> FALSE, blocked |-> FALSE, ret |-> 0]

\* first scan of bget: from head.next, the first buffer with this identity
BgetCached(s, dev, blockno) ==
    LET hits == {i \in 1..Len(s.lru) :
                    /\ s.buf[s.lru[i]].dev = dev
                    /\ s.buf[s.lru[i]].blockno = blockno}
    IN IF hits = {} THEN 0
       ELSE s.lru[CHOOSE i \in hits : \A j \in hits : i <= j]

\* a second scan that starts at head.next
BgetVictim_Mru(s) ==
    LET free == {i \in 1..Len(s.lru) : s.buf[s.lru[i]].refcnt = 0}
    IN IF free = {} THEN 0
       ELSE s.lru[CHOOSE i \in free : \A j \in free : i <= j]

\* second scan of bget: from head.prev, the first buffer with refcnt 0
BgetVictim(s) ==
    LET free == {i \in 1..Len(s.lru) : s.buf[s.lru[i]].refcnt = 0}
    IN IF free = {} THEN 0
       ELSE s.lru[CHOOSE i \in free : \A j \in free : i >= j]

\* bget without its first scan: it always recycles a buffer
Bget_NoScan(s, dev, blockno) ==
    IF s.panic \/ s.blocked THEN s
    ELSE LET v == BgetVictim(s)
         IN IF v # 0
            THEN [s EXCEPT !.buf[v] = [@ EXCEPT !.dev = dev,
                                                !.blockno = blockno,
                                                !.valid = 0,
                                                !.refcnt = 1],
                           !.ret = v]
            ELSE [s EXCEPT !.panic = TRUE]

\* bget up to release(&bcache.lock): the part done under the cache spinlock
Bget(s, dev, blockno) ==
    IF s.panic \/ s.blocked THEN s
    ELSE LET c == BgetCached(s, dev, blockno)
             v == BgetVictim(s)
         IN IF c # 0
            THEN [s EXCEPT !.buf[c].refcnt = @ + 1, !.ret = c]
            ELSE IF v # 0
            THEN [s EXCEPT !.buf[v] = [@ EXCEPT !.dev = dev,
                                                !.blockno = blockno,
                                                !.valid = 0,
                                                !.refcnt = 1],
                           !.ret = v]
            ELSE [s EXCEPT !.panic = TRUE]

\* an acquiresleep that never finds the lock taken
SleepLockBusy_Never(bf) == FALSE

\* acquiresleep's test: while (lk->locked)
SleepLockBusy(bf) == bf.locked # 0

\* acquiresleep(&b->lock) at the end of bget, then bread's read of an
\* invalid buffer; the caller sleeps while another process holds the lock
LockAndRead(s, p) ==
    IF s.panic \/ s.blocked THEN s
    ELSE LET b == s.ret
         IN IF SleepLockBusy(s.buf[b])
            THEN [s EXCEPT !.blocked = TRUE]
            ELSE [s EXCEPT !.buf[b] =
                    [@ EXCEPT !.locked = p,
                              !.valid = 1,
                              !.data = IF s.buf[b].valid = 0
                                       THEN s.disk[s.buf[b].blockno]
                                       ELSE @]]

\* bread
Bread(s, p, dev, blockno) == LockAndRead(Bget(s, dev, blockno), p)

\* bwrite: panics unless the caller holds the sleep lock
Bwrite(s, p, b, isHead) ==
    IF s.panic \/ s.blocked THEN s
    ELSE IF s.buf[b].locked # p
    THEN [s EXCEPT !.panic = TRUE]
    ELSE [s EXCEPT !.disk[s.buf[b].blockno] = s.buf[b].data,
                   !.tr = Append(@, [blk |-> s.buf[b].blockno,
                                     n |-> IF isHead THEN s.buf[b].data.n
                                                     ELSE -1])]

\* the list with b moved to head.next
MoveToFront(l, b) == <<b>> \o SelectSeq(l, LAMBDA x : x # b)

\* brelse up to releasesleep: panics unless the caller holds the sleep lock
ReleaseSleep(s, p, b) ==
    IF s.panic \/ s.blocked THEN s
    ELSE IF s.buf[b].locked # p
    THEN [s EXCEPT !.panic = TRUE]
    ELSE [s EXCEPT !.buf[b].locked = 0]

\* brelse under the cache spinlock: refcnt-- and, at 0, the move to head.next
BrelseList(s, b) ==
    IF s.panic \/ s.blocked THEN s
    ELSE [s EXCEPT !.buf[b].refcnt = @ - 1,
                   !.lru = IF s.buf[b].refcnt = 1 THEN MoveToFront(@, b)
                                                   ELSE @]

\* brelse
Brelse(s, p, b) == BrelseList(ReleaseSleep(s, p, b), b)

\* bpin
Bpin(s, b) ==
    IF s.panic \/ s.blocked THEN s
    ELSE [s EXCEPT !.buf[b].refcnt = @ + 1]

\* bunpin
Bunpin(s, b) ==
    IF s.panic \/ s.blocked THEN s
    ELSE [s EXCEPT !.buf[b].refcnt = @ - 1]

\* memmove(dst->data, src->data, BSIZE)
Memmove(s, dst, src) ==
    IF s.panic \/ s.blocked THEN s
    ELSE [s EXCEPT !.buf[dst].data = s.buf[src].data]

\* the cache and disk after a sequence of calls
Commit_IO(s) ==
    /\ ~s.blocked
    /\ buf' = s.buf
    /\ lru' = s.lru
    /\ disk' = s.disk
    /\ dtrace' = s.tr
    /\ panicked' = s.panic


(***************************************************************************)
(* The log (log.c).                                                        *)
(***************************************************************************)
\* struct log after boot's zeroing of memory
ZeroLog == [outstanding |-> 0, committing |-> 0, lh |-> EmptyHead]

ZeroProc == [pc |-> "idle", b |-> 0, tail |-> 0]

\* the blocks named by the first n slots of a header
Named(lh) == {lh.block[i] : i \in 1..lh.n}

\* read_head: the header block's n and its first n slots, into log.lh
ReadHeadLh(lh, hb) ==
    [n |-> hb.n,
     block |-> [i \in 1..LOGSIZE |-> IF i <= hb.n THEN hb.block[i]
                                                 ELSE lh.block[i]]]

\* read_head's use of the cache
ReadHeadIO(s, p) ==
    LET s1 == Bread(s, p, DEV, LogStart)
    IN Brelse(s1, p, s1.ret)

\* write_head that writes only a header with n > 0
WriteHead_KeepOld(s, p, lh) ==
    LET s1 == Bread(s, p, DEV, LogStart)
        hb == s1.ret
        s2 == IF s1.panic \/ s1.blocked THEN s1
              ELSE [s1 EXCEPT !.buf[hb].data =
                      [n |-> lh.n,
                       block |-> [i \in 1..LOGSIZE |->
                                    IF i <= lh.n THEN lh.block[i]
                                    ELSE s1.buf[hb].data.block[i]]]]
        s3 == IF lh.n > 0 THEN Bwrite(s2, p, hb, TRUE) ELSE s2
    IN Brelse(s3, p, hb)

\* write_head: log.lh.n and the first n slots into the header block, bwrite
WriteHead(s, p, lh) ==
    LET s1 == Bread(s, p, DEV, LogStart)
        hb == s1.ret
        s2 == IF s1.panic \/ s1.blocked THEN s1
              ELSE [s1 EXCEPT !.buf[hb].data =
                      [n |-> lh.n,
                       block |-> [i \in 1..LOGSIZE |->
                                    IF i <= lh.n THEN lh.block[i]
                                    ELSE s1.buf[hb].data.block[i]]]]
        s3 == Bwrite(s2, p, hb, TRUE)
    IN Brelse(s3, p, hb)

\* one iteration of write_log's loop, tail counted from 0
WriteLogOne(s, p, lh, tail) ==
    LET s1 == Bread(s, p, DEV, LogStart + tail + 1)
        to == s1.ret
        s2 == Bread(s1, p, DEV, lh.block[tail + 1])
        from == s2.ret
        s3 == Memmove(s2, to, from)
        s4 == Bwrite(s3, p, to, FALSE)
        s5 == Brelse(s4, p, from)
    IN Brelse(s5, p, to)

\* an install_trans that calls bunpin in recovery too
InstallUnpins_Always(recovering) == TRUE

\* install_trans's test before bunpin
InstallUnpins(recovering) == recovering = 0

\* one iteration of install_trans's loop, tail counted from 0
InstallOne(s, p, lh, tail, recovering) ==
    LET s1 == Bread(s, p, DEV, LogStart + tail + 1)
        lbuf == s1.ret
        s2 == Bread(s1, p, DEV, lh.block[tail + 1])
        dbuf == s2.ret
        s3 == Memmove(s2, dbuf, lbuf)
        s4 == Bwrite(s3, p, dbuf, FALSE)
        s5 == IF InstallUnpins(recovering) THEN Bunpin(s4, dbuf) ELSE s4
        s6 == Brelse(s5, p, lbuf)
    IN Brelse(s6, p, dbuf)

\* wakeup(&log): every process sleeping in begin_op runs its loop again
WakeupLog(pr) ==
    [q \in Procs |-> IF pr[q].pc = "begin_sleep"
                     THEN [pr[q] EXCEPT !.pc = "begin"] ELSE pr[q]]

NoTx == [S |-> {}, pre |-> [b \in AllHome |-> 0],
        post |-> [b \in AllHome |-> 0]]

Running == boot.pc = "run" /\ ~panicked

\* begin_op's first test without the test
BeginOpCommitting_Never(l) == FALSE

\* begin_op's first test: a commit is in progress
BeginOpCommitting(l) == l.committing # 0

\* begin_op's second test without the test
BeginOpNoRoom_Never(l) == FALSE

\* begin_op's second test: one more operation might exhaust the log
BeginOpNoRoom(l) == l.lh.n + (l.outstanding + 1) * MAXOPBLOCKS > LOGSIZE

\* begin_op: one pass of its loop under log.lock
BeginOp(p) ==
    /\ Running
    /\ proc[p].pc \in {"idle", "begin"}
    /\ IF BeginOpCommitting(log)
       THEN /\ proc' = [proc EXCEPT ![p].pc = "begin_sleep"]
            /\ log' = log
       ELSE IF BeginOpNoRoom(log)
       THEN /\ proc' = [proc EXCEPT ![p].pc = "begin_sleep"]
            /\ log' = log
       ELSE /\ log' = [log EXCEPT !.outstanding = @ + 1]
            /\ proc' = [proc EXCEPT ![p].pc = "op"]
    /\ UNCHANGED <<cacheVars, boot, opS, stamp, crashes, tx, cut>>

\* inside an operation: bread of a home block, up to bget's return of the
\* cache spinlock
OpBget(p, b) ==
    /\ Running
    /\ proc[p].pc = "op"
    /\ Cardinality(opS[p] \cup {b}) <= MAXOPBLOCKS
    /\ LET s == Bget(IOState, DEV, b)
       IN /\ Commit_IO(s)
          /\ proc' = [proc EXCEPT ![p].pc = "lock", ![p].b = s.ret]
    /\ UNCHANGED <<log, boot, opS, stamp, crashes, tx, cut>>

\* the rest of bread: the buffer's sleep lock and the read from disk
OpLock(p) ==
    /\ Running
    /\ proc[p].pc = "lock"
    /\ Commit_IO(LockAndRead([IOState EXCEPT !.ret = proc[p].b], p))
    /\ proc' = [proc EXCEPT ![p].pc = "write"]
    /\ UNCHANGED <<log, boot, opS, stamp, crashes, tx, cut>>

\* a log_write without absorption: always slot n + 1
LogSlot_Append(lh, blockno) == lh.n + 1

\* log_write's slot for blockno: the slot that names it, or slot n + 1
LogSlot(lh, blockno) ==
    LET same == {i \in 1..lh.n : lh.block[i] = blockno}
    IN IF same = {} THEN lh.n + 1
       ELSE CHOOSE i \in same : \A j \in same : i <= j

\* log_write's fatal checks
LogWriteFatal(l) ==
    \/ l.lh.n >= LOGSIZE
    \/ l.lh.n >= NLOG - 1
    \/ l.outstanding < 1

\* log_write's update of the in-memory header
LogWriteLh(lh, blockno) ==
    LET i == LogSlot(lh, blockno)
    IN [n |-> IF i = lh.n + 1 THEN lh.n + 1 ELSE lh.n,
        block |-> [lh.block EXCEPT ![i] = blockno]]

\* the caller modifies b->data, then log_write(b)
OpLogWrite(p) ==
    /\ Running
    /\ proc[p].pc = "write"
    /\ LET b == proc[p].b
           blockno == buf[b].blockno
           s0 == [IOState EXCEPT !.buf[b].data = stamp + 1]
       IN IF LogWriteFatal(log)
          THEN /\ Commit_IO([s0 EXCEPT !.panic = TRUE])
               /\ UNCHANGED <<log, tx, opS>>
          ELSE /\ Commit_IO(IF LogSlot(log.lh, blockno) = log.lh.n + 1
                            THEN Bpin(s0, b) ELSE s0)
               /\ log' = [log EXCEPT !.lh = LogWriteLh(@, blockno)]
               /\ tx' = [tx EXCEPT !.S = @ \cup {blockno},
                                   !.post[blockno] = stamp + 1]
               /\ opS' = [opS EXCEPT ![p] = @ \cup {blockno}]
    /\ stamp' = stamp + 1
    /\ proc' = [proc EXCEPT ![p].pc = "release"]
    /\ UNCHANGED <<boot, crashes, cut>>

\* brelse of the logged buffer
OpBrelse(p) ==
    /\ Running
    /\ proc[p].pc = "release"
    /\ Commit_IO(Brelse(IOState, p, proc[p].b))
    /\ proc' = [proc EXCEPT ![p].pc = "op", ![p].b = 0]
    /\ UNCHANGED <<log, boot, opS, stamp, crashes, tx, cut>>

\* commit() with install_trans before the header write
NextPhase_InstallFirst(ph) ==
    CASE ph = "write_log" -> "install"
      [] ph = "install" -> "write_head"
      [] ph = "write_head" -> "clear_head"
      [] ph = "clear_head" -> "end_commit"

\* commit() without install_trans
NextPhase_NoInstall(ph) ==
    CASE ph = "write_log" -> "write_head"
      [] ph = "write_head" -> "clear_head"
      [] ph = "install" -> "clear_head"
      [] ph = "clear_head" -> "end_commit"

\* commit(): the step that follows each of its steps
NextPhase(ph) ==
    CASE ph = "write_log" -> "write_head"
      [] ph = "write_head" -> "install"
      [] ph = "install" -> "clear_head"
      [] ph = "clear_head" -> "end_commit"

\* commit() without write_log
FirstPhase_NoWriteLog(n) == IF n > 0 THEN "write_head" ELSE "end_commit"

\* commit(): its first step; nothing is done for an empty transaction
FirstPhase(n) == IF n > 0 THEN "write_log" ELSE "end_commit"

\* end_op up to its first release(&log.lock)
EndOp(p) ==
    /\ Running
    /\ proc[p].pc = "op"
    /\ IF log.committing # 0
       THEN /\ panicked' = TRUE
            /\ log' = [log EXCEPT !.outstanding = @ - 1]
            /\ UNCHANGED <<proc, opS, tx, dtrace>>
       ELSE IF log.outstanding - 1 = 0
       THEN /\ log' = [log EXCEPT !.outstanding = 0, !.committing = 1]
            /\ proc' = [proc EXCEPT ![p].pc = FirstPhase(log.lh.n)]
            /\ tx' = [tx EXCEPT !.pre = [b \in AllHome |-> disk[b]]]
            /\ dtrace' = << >>
            /\ UNCHANGED <<panicked, opS>>
       ELSE /\ log' = [log EXCEPT !.outstanding = @ - 1]
            /\ proc' = [WakeupLog(proc) EXCEPT ![p].pc = "idle"]
            /\ opS' = [opS EXCEPT ![p] = {}]
            /\ UNCHANGED <<panicked, tx, dtrace>>
    /\ UNCHANGED <<disk, buf, lru, boot, stamp, crashes, cut>>

\* the loop index after an iteration, and the step after the loop's last
Advance(p, phase) ==
    IF proc[p].tail + 1 < log.lh.n
    THEN [proc EXCEPT ![p].tail = @ + 1]
    ELSE [proc EXCEPT ![p].tail = 0, ![p].pc = NextPhase(phase)]

\* commit: one iteration of write_log
CommitWriteLog(p) ==
    /\ Running
    /\ proc[p].pc = "write_log"
    /\ Commit_IO(WriteLogOne(IOState, p, log.lh, proc[p].tail))
    /\ proc' = Advance(p, "write_log")
    /\ UNCHANGED <<log, boot, opS, stamp, crashes, tx, cut>>

\* commit: write_head, the commit point
CommitWriteHead(p) ==
    /\ Running
    /\ proc[p].pc = "write_head"
    /\ Commit_IO(WriteHead(IOState, p, log.lh))
    /\ proc' = [proc EXCEPT ![p].pc = NextPhase("write_head")]
    /\ UNCHANGED <<log, boot, opS, stamp, crashes, tx, cut>>

\* commit: one iteration of install_trans(0)
CommitInstall(p) ==
    /\ Running
    /\ proc[p].pc = "install"
    /\ Commit_IO(InstallOne(IOState, p, log.lh, proc[p].tail, 0))
    /\ proc' = Advance(p, "install")
    /\ UNCHANGED <<log, boot, opS, stamp, crashes, tx, cut>>

\* commit: log.lh.n = 0 and write_head
CommitClearHead(p) ==
    /\ Running
    /\ proc[p].pc = "clear_head"
    /\ log' = [log EXCEPT !.lh.n = 0]
    /\ Commit_IO(WriteHead(IOState, p, log'.lh))
    /\ proc' = [proc EXCEPT ![p].pc = NextPhase("clear_head")]
    /\ UNCHANGED <<boot, opS, stamp, crashes, tx, cut>>

\* end_op after commit(): committing = 0, wakeup, return
EndCommit(p) ==
    /\ Running
    /\ proc[p].pc = "end_commit"
    /\ log' = [log EXCEPT !.committing = 0]
    /\ proc' = [WakeupLog(proc) EXCEPT ![p].pc = "idle"]
    /\ opS' = [opS EXCEPT ![p] = {}]
    /\ tx' = NoTx
    /\ dtrace' = << >>
    /\ UNCHANGED <<disk, buf, lru, panicked, boot, stamp, crashes, cut>>


(***************************************************************************)
(* Power cuts and recovery at boot (initlog, recover_from_log).            *)
(***************************************************************************)
\* the process that runs initlog
BootPid == 1

Boot0 == [pc |-> "read_head", tail |-> 0, n |-> 0]

\* the disk after the first i..n slots of its own header are replayed
RECURSIVE ReplayFrom(_, _)
ReplayFrom(d, i) ==
    IF i > d[LogStart].n THEN d
    ELSE ReplayFrom([d EXCEPT ![d[LogStart].block[i]] = d[LogStart + i]],
                    i + 1)

\* the home blocks after one uninterrupted recover_from_log on disk d
Replay(d) == [b \in AllHome |-> ReplayFrom(d, 1)[b]]

NoCut == [kind |-> "none", S |-> {}, pre |-> [b \in AllHome |-> 0],
          post |-> [b \in AllHome |-> 0], landed |-> FALSE,
          expect |-> [b \in AllHome |-> 0], partial |-> FALSE]

CommitPcs == {"write_log", "write_head", "install", "clear_head",
              "end_commit"}

\* some process is inside commit()
InCommit == \E p \in Procs : proc[p].pc \in CommitPcs

\* a header with n > 0 is among the disk writes traced
HeadLanded(tr) == \E i \in 1..Len(tr) : tr[i].n > 0

\* power cut: memory is lost, the disk stays; the kernel boots again
Crash ==
    /\ crashes < MaxCrash
    /\ crashes' = crashes + 1
    /\ buf' = [b \in Bufs |-> ZeroBuf]
    /\ lru' = BinitList
    /\ dtrace' = << >>
    /\ panicked' = FALSE
    /\ log' = ZeroLog
    /\ proc' = [p \in Procs |-> ZeroProc]
    /\ opS' = [p \in Procs |-> {}]
    /\ tx' = NoTx
    /\ boot' = Boot0
    /\ cut' = IF boot.pc # "run"
              THEN [cut EXCEPT !.partial =
                      @ \/ (boot.pc = "install" /\ boot.tail > 0)]
              ELSE IF InCommit
              THEN [kind |-> "commit", S |-> tx.S, pre |-> tx.pre,
                    post |-> tx.post, landed |-> HeadLanded(dtrace),
                    expect |-> Replay(disk), partial |-> FALSE]
              ELSE [NoCut EXCEPT !.kind = "other", !.expect = Replay(disk)]
    /\ UNCHANGED <<disk, stamp>>

\* recover_from_log: what follows read_head; install_trans's loop does
\* nothing when n is 0
RecoverAfterRead_Skip(n) == "clear_head"

RecoverAfterRead(n) == IF n > 0 THEN "install" ELSE "clear_head"

\* recover_from_log: read_head
RecoverReadHead ==
    /\ ~panicked
    /\ boot.pc = "read_head"
    /\ LET s1 == Bread(IOState, BootPid, DEV, LogStart)
           lh == IF s1.panic \/ s1.blocked THEN log.lh
                 ELSE ReadHeadLh(log.lh, s1.buf[s1.ret].data)
       IN /\ Commit_IO(Brelse(s1, BootPid, s1.ret))
          /\ log' = [log EXCEPT !.lh = lh]
          /\ boot' = [pc |-> RecoverAfterRead(lh.n), tail |-> 0,
                      n |-> lh.n]
    /\ UNCHANGED <<proc, opS, stamp, crashes, tx, cut>>

\* recover_from_log: one iteration of install_trans(1)
RecoverInstall ==
    /\ ~panicked
    /\ boot.pc = "install"
    /\ Commit_IO(InstallOne(IOState, BootPid, log.lh, boot.tail, 1))
    /\ boot' = IF boot.tail + 1 < log.lh.n
               THEN [boot EXCEPT !.tail = @ + 1]
               ELSE [boot EXCEPT !.tail = 0, !.pc = "clear_head"]
    /\ UNCHANGED <<log, proc, opS, stamp, crashes, tx, cut>>

\* recover_from_log: log.lh.n = 0 and write_head
RecoverClearHead ==
    /\ ~panicked
    /\ boot.pc = "clear_head"
    /\ log' = [log EXCEPT !.lh.n = 0]
    /\ Commit_IO(WriteHead(IOState, BootPid, log'.lh))
    /\ boot' = [boot EXCEPT !.pc = "recovered"]
    /\ UNCHANGED <<proc, opS, stamp, crashes, tx, cut>>

\* initlog returns: file-system operations may start
InitlogReturn ==
    /\ ~panicked
    /\ boot.pc = "recovered"
    /\ boot' = [boot EXCEPT !.pc = "run", !.n = 0]
    /\ cut' = NoCut
    /\ dtrace' = << >>
    /\ UNCHANGED <<disk, buf, lru, panicked, log, proc, opS, stamp, crashes,
                   tx>>

(***************************************************************************)
(* Processes using the buffer cache directly (bio.c's interface).          *)
(***************************************************************************)
\* a process between calls: the buffer it holds locked (one at a time: "do
\* not keep them longer than necessary") and the buffers it has pinned
BioIdle == [pc |-> "idle", b |-> 0, held |-> {}, pinned |-> {}]

\* the blocks the processes read: one more than there are buffers
BioBlocks == {b \in LogBody \cup Home : b <= LogStart + NBUF + 1}

\* bread(DEV, blockno) up to bget's release of the cache spinlock
BioBget(p, blockno) ==
    /\ ~panicked
    /\ bp[p].pc = "idle"
    /\ bp[p].held = {}
    /\ \A h \in bp[p].held : buf[h].blockno # blockno
    /\ LET s == Bget(IOState, DEV, blockno)
       IN /\ Commit_IO(s)
          /\ bp' = [bp EXCEPT ![p].pc = "lock", ![p].b = s.ret]

\* the rest of bread: acquiresleep and the read from disk
BioLock(p) ==
    /\ ~panicked
    /\ bp[p].pc = "lock"
    /\ Commit_IO(LockAndRead([IOState EXCEPT !.ret = bp[p].b], p))
    /\ bp' = [bp EXCEPT ![p].pc = "idle", ![p].b = 0,
                        ![p].held = @ \cup {bp[p].b}]

\* brelse(b) up to releasesleep
BioReleaseSleep(p, b) ==
    /\ ~panicked
    /\ bp[p].pc = "idle"
    /\ b \in bp[p].held
    /\ Commit_IO(ReleaseSleep(IOState, p, b))
    /\ bp' = [bp EXCEPT ![p].pc = "brelse", ![p].b = b,
                        ![p].held = @ \ {b}]

\* the rest of brelse, under the cache spinlock
BioBrelse(p) ==
    /\ ~panicked
    /\ bp[p].pc = "brelse"
    /\ Commit_IO(BrelseList(IOState, bp[p].b))
    /\ bp' = [bp EXCEPT ![p].pc = "idle", ![p].b = 0]

\* bpin(b) of a buffer the process holds
BioPin(p, b) ==
    /\ ~panicked
    /\ bp[p].pc = "idle"
    /\ b \in bp[p].held \ bp[p].pinned
    /\ Cardinality(bp[p].pinned) < MaxPin
    /\ Commit_IO(Bpin(IOState, b))
    /\ bp' = [bp EXCEPT ![p].pinned = @ \cup {b}]

\* bunpin(b) of a buffer the process has pinned
BioUnpin(p, b) ==
    /\ ~panicked
    /\ bp[p].pc = "idle"
    /\ b \in bp[p].pinned
    /\ Commit_IO(Bunpin(IOState, b))
    /\ bp' = [bp EXCEPT ![p].pinned = @ \ {b}]

\* bwrite(b) is called by process p, on any buffer
BioBwriteCall(p, b) ==
    /\ ~panicked
    /\ bp[p].pc = "idle"
    /\ bp' = [bp EXCEPT ![p].pc = "bwrite", ![p].b = b]
    /\ UNCHANGED cacheVars

\* bwrite: holdingsleep, then the write to disk
BioBwrite(p) ==
    /\ ~panicked
    /\ bp[p].pc = "bwrite"
    /\ Commit_IO(Bwrite(IOState, p, bp[p].b, FALSE))
    /\ bp' = [bp EXCEPT ![p].pc = "idle", ![p].b = 0]

\* brelse(b) of a buffer that bread has not returned to process p, up to
\* releasesleep
BioBrelseStray(p, b) ==
    /\ ~panicked
    /\ bp[p].pc = "idle"
    /\ b \notin bp[p].held
    /\ Commit_IO(ReleaseSleep(IOState, p, b))
    /\ bp' = [bp EXCEPT ![p].pc = "brelse", ![p].b = b]

\* the history of the free buffers when bget returns one to process p: the
\* buffer's refcnt is no longer 0
HistBget(p) ==
    bhist' = [bhist EXCEPT !.zero = SelectSeq(@, LAMBDA x : x # bp'[p].b)]

\* the history when brelse's refcnt-- is reached by process p
HistBrelse(p) ==
    bhist' = IF buf[bp[p].b].refcnt = 1
             THEN [zero |-> MoveToFront(bhist.zero, bp[p].b),
                   rel |-> MoveToFront(bhist.rel, bp[p].b)]
             ELSE bhist

\* the history when bunpin's refcnt-- is applied to buffer b
HistUnpin(b) ==
    bhist' = IF buf[b].refcnt = 1
             THEN [bhist EXCEPT !.zero = MoveToFront(@, b)]
             ELSE bhist

(***************************************************************************)
(* The pipe (pipe.c).  Every step is taken with pi->lock held; sleep gives *)
(* the lock up and takes it again after the wakeup.                        *)
(***************************************************************************)
PWriters == {1}
PReaders == {2}
\* the processes that share the write end and the read end when each end
\* has more than one user
AllWriters == PWriters \cup {3}
AllReaders == PReaders \cup {4}
PProcs == AllWriters \cup AllReaders

\* the largest n of a call: more than the ring holds
MaxN == PIPESIZE + 1

\* struct pipe after pipealloc; lock is the pid that holds pi->lock, or 0
Pipe0 == [data |-> [k \in 0..(PIPESIZE - 1) |-> 0], nread |-> 0,
          nwrite |-> 0, readopen |-> 1, writeopen |-> 1, lock |-> 0]

\* a process outside pipewrite/piperead.  n, fault, base describe its last
\* call: fault is the index of the first byte whose copyin/copyout fails
\* (n when none does), base the first byte of the user buffer; i is the
\* call's i, ret what it returned, why the line it returned from
PIdle == [pc |-> "idle", n |-> 0, i |-> 0, fault |-> 0, base |-> 0,
          ret |-> 0, why |-> "none", slept |-> FALSE]

\* wakeup(&pi->nread)
WakeReaders(pr) ==
    [q \in PProcs |-> IF pr[q].pc = "rsleep"
                      THEN [pr[q] EXCEPT !.pc = "rwoken"] ELSE pr[q]]

\* a wakeup(&pi->nwrite) that wakes nobody
WakeWriters_None(pr) == pr

\* wakeup(&pi->nwrite)
WakeWriters(pr) ==
    [q \in PProcs |-> IF pr[q].pc = "wsleep"
                      THEN [pr[q] EXCEPT !.pc = "wwoken"] ELSE pr[q]]

\* a full test that lets one byte too many in
PipeFull_OffByOne(pi) == pi.nwrite = pi.nread + PIPESIZE + 1

\* DOC: pipewrite-full
PipeFull(pi) == pi.nwrite = pi.nread + PIPESIZE

\* DOC: pipe-empty
PipeEmpty(pi) == pi.nread = pi.nwrite

\* pipewrite(pi, addr, n): acquire(&pi->lock), i = 0
PipeWriteCall(p, n, fault) ==
    /\ pp[p].pc = "idle"
    /\ p \notin pkilled
    /\ pipe.writeopen = 1
    /\ pipe.lock = 0
    /\ pstream.next - 1 + n <= MaxBytes
    /\ pipe' = [pipe EXCEPT !.lock = p]
    /\ pp' = [pp EXCEPT ![p] = [pc |-> "wloop", n |-> n, i |-> 0,
                                fault |-> fault, base |-> pstream.next,
                                ret |-> 0, why |-> "none", slept |-> FALSE]]
    /\ UNCHANGED <<pstream, pkilled>>

\* pipewrite: one pass of while (i < n), or what follows the loop
PipeWriteStep(p) ==
    /\ pp[p].pc = "wloop"
    /\ pipe.lock = p
    /\ IF pp[p].i < pp[p].n /\ (pipe.readopen = 0 \/ p \in pkilled)
       THEN \* release, return -1
            /\ pipe' = [pipe EXCEPT !.lock = 0]
            /\ pp' = [pp EXCEPT ![p].pc = "idle", ![p].ret = -1,
                                ![p].why = IF pipe.readopen = 0
                                           THEN "closed" ELSE "killed"]
            /\ UNCHANGED pstream
       ELSE IF pp[p].i < pp[p].n /\ PipeFull(pipe)
       THEN \* wakeup(&pi->nread); sleep(&pi->nwrite, &pi->lock)
            /\ pipe' = [pipe EXCEPT !.lock = 0]
            /\ pp' = [WakeReaders(pp) EXCEPT ![p].pc = "wsleep",
                                             ![p].slept = TRUE]
            /\ UNCHANGED pstream
       ELSE IF pp[p].i < pp[p].n /\ pp[p].i < pp[p].fault
       THEN \* copyin succeeds: data[nwrite++ % PIPESIZE] = ch; i++
            /\ pipe' = [pipe EXCEPT
                          !.data[pipe.nwrite % PIPESIZE] =
                              pp[p].base + pp[p].i,
                          !.nwrite = @ + 1]
            /\ pp' = [pp EXCEPT ![p].i = @ + 1]
            /\ pstream' = [pstream EXCEPT
                             !.stored = Append(@, pp[p].base + pp[p].i)]
       ELSE \* copyin failed (break) or i = n: wakeup, release, return i
            /\ pipe' = [pipe EXCEPT !.lock = 0]
            /\ pp' = [WakeReaders(pp) EXCEPT
                        ![p].pc = "idle", ![p].ret = pp[p].i,
                        ![p].why = IF pp[p].i < pp[p].n THEN "fault"
                                                        ELSE "done"]
            /\ pstream' = [pstream EXCEPT
                             !.next = @ + pp[p].i,
                             !.accepted = @ \o
                                 [j \in 1..pp[p].i |-> pp[p].base + j - 1]]
    /\ UNCHANGED pkilled

\* sleep returns in pipewrite: the lock is taken again
PipeWriteWake(p) ==
    /\ pp[p].pc = "wwoken"
    /\ pipe.lock = 0
    /\ pipe' = [pipe EXCEPT !.lock = p]
    /\ pp' = [pp EXCEPT ![p].pc = "wloop"]
    /\ UNCHANGED <<pstream, pkilled>>

\* piperead(pi, addr, n): acquire(&pi->lock)
PipeReadCall(p, n, fault) ==
    /\ pp[p].pc = "idle"
    /\ p \notin pkilled
    /\ pipe.readopen = 1
    /\ pipe.lock = 0
    /\ pipe' = [pipe EXCEPT !.lock = p]
    /\ pp' = [pp EXCEPT ![p] = [pc |-> "rwait", n |-> n, i |-> 0,
                                fault |-> fault, base |-> 0,
                                ret |-> 0, why |-> "none", slept |-> FALSE]]
    /\ UNCHANGED <<pstream, pkilled>>

\* piperead: one pass of the loop at DOC: pipe-empty
PipeReadWait(p) ==
    /\ pp[p].pc = "rwait"
    /\ pipe.lock = p
    /\ IF PipeEmpty(pipe) /\ pipe.writeopen # 0
       THEN IF p \in pkilled
            THEN \* release, return -1
                 /\ pipe' = [pipe EXCEPT !.lock = 0]
                 /\ pp' = [pp EXCEPT ![p].pc = "idle", ![p].ret = -1,
                                     ![p].why = "killed"]
            ELSE \* DOC: piperead-sleep
                 /\ pipe' = [pipe EXCEPT !.lock = 0]
                 /\ pp' = [pp EXCEPT ![p].pc = "rsleep", ![p].slept = TRUE]
       ELSE /\ pp' = [pp EXCEPT ![p].pc = "rcopy"]
            /\ pipe' = pipe
    /\ UNCHANGED <<pstream, pkilled>>

\* sleep returns in piperead: the lock is taken again
PipeReadWake(p) ==
    /\ pp[p].pc = "rwoken"
    /\ pipe.lock = 0
    /\ pipe' = [pipe EXCEPT !.lock = p]
    /\ pp' = [pp EXCEPT ![p].pc = "rwait"]
    /\ UNCHANGED <<pstream, pkilled>>

\* piperead: one pass of the loop at DOC: piperead-copy, or what follows it
PipeReadCopy(p) ==
    /\ pp[p].pc = "rcopy"
    /\ pipe.lock = p
    /\ IF pp[p].i < pp[p].n /\ ~PipeEmpty(pipe)
       THEN LET ch == pipe.data[pipe.nread % PIPESIZE]
            IN /\ pipe' = [pipe EXCEPT
                             !.nread = @ + 1,
                             !.lock = IF pp[p].i < pp[p].fault THEN @ ELSE 0]
               /\ IF pp[p].i < pp[p].fault
                  THEN \* copyout succeeds
                       /\ pp' = [pp EXCEPT ![p].i = @ + 1]
                       /\ pstream' = [pstream EXCEPT
                                        !.delivered = Append(@, ch)]
                  ELSE \* copyout failed: break, wakeup, release, return i
                       /\ pp' = [WakeWriters(pp) EXCEPT
                                   ![p].pc = "idle", ![p].ret = pp[p].i,
                                   ![p].why = "fault"]
                       /\ UNCHANGED pstream
       ELSE \* DOC: piperead-wakeup, release, return i
            /\ pipe' = [pipe EXCEPT !.lock = 0]
            /\ pp' = [WakeWriters(pp) EXCEPT
                        ![p].pc = "idle", ![p].ret = pp[p].i,
                        ![p].why = "done"]
            /\ UNCHANGED pstream
    /\ UNCHANGED pkilled

\* a pipeclose that wakes nobody
CloseWakes_None(pr, writable) == pr

\* pipeclose's wakeup of the other side's sleepers
CloseWakes(pr, writable) ==
    IF writable # 0 THEN WakeReaders(pr) ELSE WakeWriters(pr)

\* pipeclose(pi, writable).  The file layer calls it when the last
\* descriptor of that end is closed: no process is then inside a call on
\* that end, and none starts one afterwards.
PipeClose(writable) ==
    /\ pipe.lock = 0
    /\ IF writable # 0
       THEN /\ pipe.writeopen = 1
            /\ \A w \in AllWriters : pp[w].pc = "idle"
            /\ pipe' = [pipe EXCEPT !.writeopen = 0]
       ELSE /\ pipe.readopen = 1
            /\ \A r \in AllReaders : pp[r].pc = "idle"
            /\ pipe' = [pipe EXCEPT !.readopen = 0]
    /\ pp' = CloseWakes(pp, writable)
    /\ UNCHANGED <<pstream, pkilled>>

\* kill(pid): the killed flag is set and a sleeping process is made runnable
PipeKill(p) ==
    /\ p \notin pkilled
    /\ pkilled' = pkilled \cup {p}
    /\ pp' = [pp EXCEPT ![p].pc = CASE @ = "wsleep" -> "wwoken"
                                    [] @ = "rsleep" -> "rwoken"
                                    [] OTHER -> @]
    /\ UNCHANGED <<pipe, pstream>>

(***************************************************************************)
(* The physical page allocator (kalloc.c).  Frames are numbered            *)
(* 1..NFRAMES from end upwards; 0 is the null pointer and Junk what a      *)
(* memset leaves in a frame's first word.                                  *)
(***************************************************************************)
KCpus == {1, 2}
Frames == 1..NFRAMES
Junk == -1

\* a CPU outside kalloc and kfree: r is the local r of its last call, ret
\* what its last kalloc returned, owned the frames its callers hold
KIdle == [pc |-> "idle", r |-> 0, ret |-> 0, owned |-> {}]

\* kfree's push of frame f, as freerange does it for each frame in turn
RECURSIVE FreeRange(_, _)
FreeRange(s, f) ==
    IF f > NFRAMES THEN s
    ELSE FreeRange([kmem |-> [s.kmem EXCEPT !.freelist = f],
                    kframe |-> [s.kframe EXCEPT ![f] = s.kmem.freelist]],
                   f + 1)

\* kinit: initlock, freerange(end, PHYSTOP)
Kinit == FreeRange([kmem |-> [freelist |-> 0, lock |-> 0],
                    kframe |-> [f \in Frames |-> Junk]], 1)

\* the frames reached from kmem.freelist through next, at most fuel of them
RECURSIVE Walk(_, _)
Walk(r, fuel) ==
    IF r \notin Frames \/ fuel = 0 THEN << >>
    ELSE <<r>> \o Walk(kframe[r], fuel - 1)

FreeList == Walk(kmem.freelist, NFRAMES + 1)

\* an acquire of kmem.lock that does not wait for the holder
KmemLockFree_NoWait(k) == TRUE

\* acquire(&kmem.lock) goes through when nobody holds the lock
KmemLockFree(k) == k.lock = 0

\* kfree(pa): the range check, memset(pa, 1, PGSIZE), r = pa.  The caller
\* passes a frame it holds, or an address outside [end, PHYSTOP).
KfreeCall(c, pa) ==
    /\ ~panicked
    /\ kp[c].pc = "idle"
    /\ pa \in kp[c].owned \cup {0, NFRAMES + 1}
    /\ IF pa \notin Frames
       THEN \* panic("kfree")
            /\ panicked' = TRUE
            /\ UNCHANGED <<kframe, kp>>
       ELSE /\ kframe' = [kframe EXCEPT ![pa] = Junk]
            /\ kp' = [kp EXCEPT ![c].pc = "kf_acq", ![c].r = pa,
                                ![c].owned = @ \ {pa}]
            /\ UNCHANGED panicked
    /\ UNCHANGED <<kmem, korder>>

\* kfree: acquire(&kmem.lock)
KfreeAcquire(c) ==
    /\ ~panicked
    /\ kp[c].pc = "kf_acq"
    /\ KmemLockFree(kmem)
    /\ kmem' = [kmem EXCEPT !.lock = c]
    /\ kp' = [kp EXCEPT ![c].pc = "kf_link"]
    /\ UNCHANGED <<kframe, korder, panicked>>

\* kfree: r->next = kmem.freelist
KfreeLink(c) ==
    /\ ~panicked
    /\ kp[c].pc = "kf_link"
    /\ kframe' = [kframe EXCEPT ![kp[c].r] = kmem.freelist]
    /\ kp' = [kp EXCEPT ![c].pc = "kf_head"]
    /\ UNCHANGED <<kmem, korder, panicked>>

\* kfree: kmem.freelist = r; release(&kmem.lock)
KfreeHead(c) ==
    /\ ~panicked
    /\ kp[c].pc = "kf_head"
    /\ kmem' = [kmem EXCEPT !.freelist = kp[c].r,
                            !.lock = IF @ = c THEN 0 ELSE @]
    /\ korder' = Append(korder, kp[c].r)
    /\ kp' = [kp EXCEPT ![c].pc = "idle", ![c].r = 0]
    /\ UNCHANGED <<kframe, panicked>>

\* kalloc()
KallocCall(c) ==
    /\ ~panicked
    /\ kp[c].pc = "idle"
    /\ kp' = [kp EXCEPT ![c].pc = "ka_acq", ![c].r = 0]
    /\ UNCHANGED <<kmem, kframe, korder, panicked>>

\* kalloc: acquire(&kmem.lock)
KallocAcquire(c) ==
    /\ ~panicked
    /\ kp[c].pc = "ka_acq"
    /\ KmemLockFree(kmem)
    /\ kmem' = [kmem EXCEPT !.lock = c]
    /\ kp' = [kp EXCEPT ![c].pc = "ka_read"]
    /\ UNCHANGED <<kframe, korder, panicked>>

\* kalloc: r = kmem.freelist
KallocRead(c) ==
    /\ ~panicked
    /\ kp[c].pc = "ka_read"
    /\ kp' = [kp EXCEPT ![c].pc = "ka_pop", ![c].r = kmem.freelist]
    /\ UNCHANGED <<kmem, kframe, korder, panicked>>

\* the word kalloc reads through r->next
KallocNext_Same(r) == r

KallocNext(r) == kframe[r]

\* kalloc: if (r) kmem.freelist = r->next; release(&kmem.lock)
KallocPop(c) ==
    /\ ~panicked
    /\ kp[c].pc = "ka_pop"
    /\ kmem' = [kmem EXCEPT
                  !.freelist = IF kp[c].r # 0 THEN KallocNext(kp[c].r) ELSE @,
                  !.lock = IF @ = c THEN 0 ELSE @]
    /\ korder' = SelectSeq(korder, LAMBDA f : f # kp[c].r)
    /\ kp' = [kp EXCEPT ![c].pc = "ka_ret"]
    /\ UNCHANGED <<kframe, panicked>>

\* kalloc: if (r) memset(r, 5, PGSIZE); return r
KallocReturn(c) ==
    /\ ~panicked
    /\ kp[c].pc = "ka_ret"
    /\ kframe' = IF kp[c].r # 0 THEN [kframe EXCEPT ![kp[c].r] = Junk]
                                ELSE kframe
    /\ kp' = [kp EXCEPT ![c].pc = "idle", ![c].ret = kp[c].r, ![c].r = 0,
                        ![c].owned = IF kp[c].r # 0 THEN @ \cup {kp[c].r}
                                                    ELSE @]
    /\ UNCHANGED <<kmem, korder, panicked>>

(***************************************************************************)
(* Spinlocks and the interrupt-disable nesting (spinlock.c).               *)
(***************************************************************************)
SCpus == {1, 2}
SLocks == {1, 2}

\* initlock: locked = 0, cpu = 0
Initlock == [locked |-> 0, cpu |-> 0]

\* a CPU at boot, outside the lock functions: interrupts off, noff = 0.
\* lk is the lock of the call in progress, old push_off's local; held are
\* the locks between acquire's return and release's clearing of the lock
\* word, before the interrupt-enable bit seen by the outermost push_off,
\* depth the push_off calls made outside acquire and not yet popped, and
\* unmatched whether a pop_off was called outside release with depth 0.
SCpu0 == [pc |-> "idle", lk |-> 0, noff |-> 0, intena |-> FALSE,
          intr |-> FALSE, old |-> FALSE, held |-> {}, before |-> FALSE,
          depth |-> 0, unmatched |-> FALSE]

\* holding(lk) on CPU c
Holding_Never(c, l) == FALSE

Holding(c, l) == slk[l].locked # 0 /\ slk[l].cpu = c

\* intr_on()/intr_off() by kernel code that holds no lock (trap.c)
SetIntr(c, on) ==
    /\ ~panicked
    /\ scpu[c].pc = "idle" /\ scpu[c].noff = 0 /\ scpu[c].held = {}
    /\ scpu[c].intr # on
    /\ scpu' = [scpu EXCEPT ![c].intr = on]
    /\ UNCHANGED <<slk, panicked>>

\* a push_off that leaves the interrupt-enable bit alone
PushOffGet_NoIntrOff(cpu) ==
    [cpu EXCEPT !.old = cpu.intr,
                !.before = IF cpu.noff = 0 THEN cpu.intr ELSE @]

\* push_off: old = intr_get(); intr_off()
PushOffGet(cpu) ==
    [cpu EXCEPT !.old = cpu.intr, !.intr = FALSE,
                !.before = IF cpu.noff = 0 THEN cpu.intr ELSE @]

\* the condition under which push_off stores old in intena
PushOffSaves_Always(cpu) == TRUE

PushOffSaves(cpu) == cpu.noff = 0

\* push_off: if (noff == 0) intena = old; noff += 1
PushOffCount(cpu) ==
    [cpu EXCEPT !.intena = IF PushOffSaves(cpu) THEN cpu.old ELSE @,
                !.noff = @ + 1, !.old = FALSE]

\* pop_off's two panics
PopOffFatal(cpu) == cpu.intr \/ cpu.noff < 1

\* pop_off: noff -= 1
PopOffCount(cpu) == [cpu EXCEPT !.noff = @ - 1]

\* pop_off: if (noff == 0 && intena) intr_on()
PopOffRestore(cpu) ==
    [cpu EXCEPT !.intr = IF cpu.noff = 0 /\ cpu.intena THEN TRUE ELSE @,
                !.before = IF cpu.noff = 0 THEN FALSE ELSE @]

\* acquire(lk): push_off's first half
AcquireCall(c, l) ==
    /\ ~panicked
    /\ scpu[c].pc = "idle"
    /\ scpu[c].noff < MaxNoff
    /\ scpu' = [scpu EXCEPT ![c] = [PushOffGet(@) EXCEPT !.pc = "acq_push",
                                                         !.lk = l]]
    /\ UNCHANGED <<slk, panicked>>

\* acquire: push_off's second half
AcquirePush(c) ==
    /\ ~panicked
    /\ scpu[c].pc = "acq_push"
    /\ scpu' = [scpu EXCEPT ![c] = [PushOffCount(@) EXCEPT !.pc = "acq_hold"]]
    /\ UNCHANGED <<slk, panicked>>

\* acquire: if (holding(lk)) panic("acquire")
AcquireCheck(c) ==
    /\ ~panicked
    /\ scpu[c].pc = "acq_hold"
    /\ IF Holding(c, scpu[c].lk)
       THEN panicked' = TRUE /\ scpu' = [scpu EXCEPT ![c].pc = "panic"]
       ELSE scpu' = [scpu EXCEPT ![c].pc = "acq_spin"] /\ UNCHANGED panicked
    /\ UNCHANGED slk

\* what the atomic swap of acquire's loop must find to leave the loop
SwapWins_Blind(lock) == TRUE

SwapWins(lock) == lock.locked = 0

\* acquire: the __sync_lock_test_and_set that returns 0
AcquireSwap(c) ==
    /\ ~panicked
    /\ scpu[c].pc = "acq_spin"
    /\ SwapWins(slk[scpu[c].lk])
    /\ slk' = [slk EXCEPT ![scpu[c].lk].locked = 1]
    /\ scpu' = [scpu EXCEPT ![c].pc = "acq_cpu"]
    /\ UNCHANGED panicked

\* acquire: lk->cpu = mycpu(); return
AcquireReturn(c) ==
    /\ ~panicked
    /\ scpu[c].pc = "acq_cpu"
    /\ slk' = [slk EXCEPT ![scpu[c].lk].cpu = c]
    /\ scpu' = [scpu EXCEPT ![c].pc = "idle", ![c].lk = 0,
                            ![c].held = @ \cup {scpu[c].lk}]
    /\ UNCHANGED panicked

\* release(lk): if (!holding(lk)) panic("release")
ReleaseCall(c, l) ==
    /\ ~panicked
    /\ scpu[c].pc = "idle"
    /\ IF ~Holding(c, l)
       THEN panicked' = TRUE
            /\ scpu' = [scpu EXCEPT ![c].pc = "panic", ![c].lk = l]
       ELSE scpu' = [scpu EXCEPT ![c].pc = "rel_cpu", ![c].lk = l]
            /\ UNCHANGED panicked
    /\ UNCHANGED slk

\* release: lk->cpu = 0
ReleaseCpu(c) ==
    /\ ~panicked
    /\ scpu[c].pc = "rel_cpu"
    /\ slk' = [slk EXCEPT ![scpu[c].lk].cpu = 0]
    /\ scpu' = [scpu EXCEPT ![c].pc = "rel_word"]
    /\ UNCHANGED panicked

\* release: __sync_lock_release(&lk->locked)
ReleaseWord(c) ==
    /\ ~panicked
    /\ scpu[c].pc = "rel_word"
    /\ slk' = [slk EXCEPT ![scpu[c].lk].locked = 0]
    /\ scpu' = [scpu EXCEPT ![c].pc = "pop", ![c].lk = 0,
                            ![c].held = @ \ {scpu[c].lk}]
    /\ UNCHANGED panicked

\* push_off() called outside acquire: its first half
PushOffCall(c) ==
    /\ ~panicked
    /\ scpu[c].pc = "idle"
    /\ scpu[c].noff < MaxNoff
    /\ scpu' = [scpu EXCEPT ![c] = [PushOffGet(@) EXCEPT !.pc = "push"]]
    /\ UNCHANGED <<slk, panicked>>

\* push_off() called outside acquire: its second half
PushOffReturn(c) ==
    /\ ~panicked
    /\ scpu[c].pc = "push"
    /\ scpu' = [scpu EXCEPT ![c] = [PushOffCount(@) EXCEPT !.pc = "idle",
                                                           !.depth = @ + 1]]
    /\ UNCHANGED <<slk, panicked>>

\* pop_off() called outside release
PopOffCall(c) ==
    /\ ~panicked
    /\ scpu[c].pc = "idle"
    /\ scpu' = [scpu EXCEPT ![c].pc = "pop",
                            ![c].depth = IF @ > 0 THEN @ - 1 ELSE @,
                            ![c].unmatched = @ \/ scpu[c].depth = 0]
    /\ UNCHANGED <<slk, panicked>>

\* pop_off: the two checks and noff -= 1
PopOffCheck(c) ==
    /\ ~panicked
    /\ scpu[c].pc = "pop"
    /\ IF PopOffFatal(scpu[c])
       THEN panicked' = TRUE /\ scpu' = [scpu EXCEPT ![c].pc = "panic"]
       ELSE scpu' = [scpu EXCEPT ![c] = [PopOffCount(@) EXCEPT !.pc = "pop_on"]]
            /\ UNCHANGED panicked
    /\ UNCHANGED slk

\* pop_off: the intr_on() of the outermost exit; return
PopOffReturn(c) ==
    /\ ~panicked
    /\ scpu[c].pc = "pop_on"
    /\ scpu' = [scpu EXCEPT ![c] = [PopOffRestore(@) EXCEPT !.pc = "idle"]]
    /\ UNCHANGED <<slk, panicked>>

(***************************************************************************)
(* exec (exec.c).  What the file system, the ELF file, the allocator and   *)
(* copyout answer is chosen at the step that asks.                         *)
(***************************************************************************)
PtIds == {1, 2}
NoPt == [live |-> FALSE, sz |-> 0]

\* strlen of an argument: a short one, and one that fills the stack page
ArgLens == {7, PGSIZE - 1}

\* the program headers exec meets: loadable and fine, not ELF_PROG_LOAD,
\* and one for each way to goto bad inside the loop
SegKinds == {"load", "skip", "readfail", "memsz", "wrap", "align", "nomem",
             "loadseg"}

\* the calling process: its image from an earlier exec
EProc0 == [pagetable |-> 1, sz |-> 3 * PGSIZE, epc |-> 4, sp |-> 3 * PGSIZE,
           a1 |-> 0, name |-> "old", ofile |-> {0, 1, 2}]

\* no exec in progress.  saved is the struct proc at the call, op the
\* begin_op calls not yet ended, why the line a failure came from
Ex0 == [pc |-> "idle", i |-> 0, phnum |-> 0, nargs |-> 0, argc |-> 0,
        sz |-> 0, sp |-> 0, stackbase |-> 0, pagetable |-> 0, ip |-> 0,
        op |-> 0, oldsz |-> 0, oldpagetable |-> 0, ustack |-> << >>,
        ret |-> 0, why |-> "none", saved |-> EProc0]

PGROUNDUP(a) == ((a + PGSIZE - 1) \div PGSIZE) * PGSIZE

\* goto bad, from the line named by why
GotoBad(why) == [ex EXCEPT !.pc = "bad", !.why = why]

\* exec(path, argv): begin_op(); ip = namei(path)
ExecCall(nargs, found) ==
    /\ ex.pc = "idle"
    /\ IF found
       THEN ex' = [Ex0 EXCEPT !.pc = "hdr", !.nargs = nargs, !.ip = 1,
                              !.op = 1, !.saved = eproc]
       ELSE \* end_op(); return -1
            ex' = [Ex0 EXCEPT !.ret = -1, !.why = "namei", !.saved = eproc]
    /\ UNCHANGED <<eproc, epts>>

\* ilock(ip); the ELF header is read and its magic checked
ExecHeader(outcome, phnum) ==
    /\ ex.pc = "hdr"
    /\ ex' = IF outcome = "ok" THEN [ex EXCEPT !.pc = "ptalloc",
                                               !.phnum = phnum]
                               ELSE GotoBad(outcome)
    /\ UNCHANGED <<eproc, epts>>

\* pagetable = proc_pagetable(p)
ExecPagetable(ok) ==
    /\ ex.pc = "ptalloc"
    /\ IF ok
       THEN LET q == CHOOSE q \in PtIds : ~epts[q].live
            IN /\ ex' = [ex EXCEPT !.pc = "seg", !.pagetable = q]
               /\ epts' = [epts EXCEPT ![q] = [live |-> TRUE, sz |-> 0]]
       ELSE ex' = GotoBad("proc_pagetable") /\ UNCHANGED epts
    /\ UNCHANGED eproc

\* one pass of the program-header loop
ExecSegment(kind) ==
    /\ ex.pc = "seg"
    /\ ex.i < ex.phnum
    /\ IF kind = "load"
       THEN \* sz = uvmalloc(pagetable, sz, ph.vaddr + ph.memsz, perm); loadseg
            /\ ex' = [ex EXCEPT !.i = @ + 1, !.sz = @ + PGSIZE]
            /\ epts' = [epts EXCEPT ![ex.pagetable].sz = ex.sz + PGSIZE]
       ELSE IF kind = "skip"
       THEN ex' = [ex EXCEPT !.i = @ + 1] /\ UNCHANGED epts
       ELSE IF kind = "loadseg"
       THEN \* uvmalloc went through, loadseg's readi came up short
            /\ ex' = [GotoBad(kind) EXCEPT !.sz = @ + PGSIZE]
            /\ epts' = [epts EXCEPT ![ex.pagetable].sz = ex.sz + PGSIZE]
       ELSE ex' = GotoBad(kind) /\ UNCHANGED epts
    /\ UNCHANGED eproc

\* after the loop: iunlockput(ip); end_op(); ip = 0; oldsz = p->sz;
\* sz = PGROUNDUP(sz)
ExecSegsDone ==
    /\ ex.pc = "seg"
    /\ ex.i = ex.phnum
    /\ ex' = [ex EXCEPT !.pc = "stack", !.ip = 0, !.op = @ - 1,
                        !.oldsz = eproc.sz, !.sz = PGROUNDUP(@)]
    /\ UNCHANGED <<eproc, epts>>

\* the two stack pages: uvmalloc, uvmclear, sp = sz, stackbase = sp - PGSIZE
ExecStack(ok) ==
    /\ ex.pc = "stack"
    /\ IF ok
       THEN /\ ex' = [ex EXCEPT !.pc = "args", !.sz = @ + 2 * PGSIZE,
                                !.sp = ex.sz + 2 * PGSIZE,
                                !.stackbase = ex.sz + PGSIZE]
            /\ epts' = [epts EXCEPT ![ex.pagetable].sz = ex.sz + 2 * PGSIZE]
       ELSE ex' = GotoBad("stack") /\ UNCHANGED epts
    /\ UNCHANGED eproc

\* one pass of the argument loop, for an argument of len characters
ExecArg(len, copyok) ==
    /\ ex.pc = "args"
    /\ ex.argc < ex.nargs
    /\ LET sp1 == ex.sp - (len + 1)
           sp2 == sp1 - (sp1 % 16)
       IN ex' = IF ex.argc >= MAXARG THEN GotoBad("maxarg")
                ELSE IF sp2 < ex.stackbase THEN GotoBad("stackbase")
                ELSE IF ~copyok THEN GotoBad("copyout")
                ELSE [ex EXCEPT !.sp = sp2, !.argc = @ + 1,
                                !.ustack = Append(@, sp2)]
    /\ UNCHANGED <<eproc, epts>>

\* what the store ustack[MAXARG] = 0 can land on: ustack has MAXARG slots, so
\* the store is outside the array; it falls on nothing that exec reads again
\* or on one of the locals declared with the array, which then reads 0
UstackNeighbours == {"none", "argc", "sz", "sp", "stackbase"}

\* ustack[argc] = 0
UstackStore(e, hit) ==
    LET w == [e EXCEPT !.ustack = Append(@, 0)]
    IN IF e.argc < MAXARG \/ hit = "none" THEN w
       ELSE IF hit = "argc" THEN [w EXCEPT !.argc = 0]
       ELSE IF hit = "sz" THEN [w EXCEPT !.sz = 0]
       ELSE IF hit = "sp" THEN [w EXCEPT !.sp = 0]
       ELSE [w EXCEPT !.stackbase = 0]

\* argv[argc] is null: ustack[argc] = 0 and the pointer array is pushed
ExecArgv(copyok, hit) ==
    /\ ex.pc = "args"
    /\ ex.argc = ex.nargs
    /\ ex.argc < MAXARG => hit = "none"
    /\ LET e == UstackStore(ex, hit)
           sp1 == e.sp - (e.argc + 1) * 8
           sp2 == sp1 - (sp1 % 16)
       IN ex' = IF sp2 < e.stackbase THEN [e EXCEPT !.pc = "bad", !.why = "stackbase"]
                ELSE IF ~copyok THEN [e EXCEPT !.pc = "bad", !.why = "copyout"]
                ELSE [e EXCEPT !.pc = "a1", !.sp = sp2]
    /\ UNCHANGED <<eproc, epts>>

\* p->trapframe->a1 = sp; safestrcpy(p->name, last, ...)
ExecA1Name ==
    /\ ex.pc = "a1"
    /\ eproc' = [eproc EXCEPT !.a1 = ex.sp, !.name = "new"]
    /\ ex' = [ex EXCEPT !.pc = "commit"]
    /\ UNCHANGED epts

\* oldpagetable = p->pagetable; p->pagetable, sz, epc, sp = the new image
ExecCommit ==
    /\ ex.pc = "commit"
    /\ eproc' = [eproc EXCEPT !.pagetable = ex.pagetable, !.sz = ex.sz,
                              !.epc = 0, !.sp = ex.sp]
    /\ ex' = [ex EXCEPT !.pc = "freeold", !.oldpagetable = eproc.pagetable]
    /\ UNCHANGED epts

\* proc_freepagetable(oldpagetable, oldsz); return argc
ExecFreeOld ==
    /\ ex.pc = "freeold"
    /\ epts' = [epts EXCEPT ![ex.oldpagetable] = NoPt]
    /\ ex' = [ex EXCEPT !.pc = "idle", !.ret = ex.argc]
    /\ UNCHANGED eproc

\* a bad: that frees nothing
ExecBadFrees_Never(pagetable) == FALSE

\* bad: if (pagetable)
ExecBadFrees(pagetable) == pagetable # 0

\* bad: free the new page table, iunlockput and end_op if ip, return -1
ExecBad ==
    /\ ex.pc = "bad"
    /\ epts' = IF ExecBadFrees(ex.pagetable)
               THEN [epts EXCEPT ![ex.pagetable] = NoPt] ELSE epts
    /\ ex' = [ex EXCEPT !.pc = "idle", !.ret = -1, !.ip = 0,
                        !.op = IF ex.ip # 0 THEN @ - 1 ELSE @]
    /\ UNCHANGED eproc

(***************************************************************************)
(* The initial state: main() has run binit; initlog is about to run.       *)
(***************************************************************************)
(* The sleep lock (sleeplock.c).  sleep(chan, lk) gives up the spinlock lk *)
(* and parks the caller in one step, and takes lk again after a wakeup;    *)
(* wakeup(chan) makes every process parked on chan runnable.               *)
(***************************************************************************)
SlpProcs == {1, 2, 3}

\* initsleeplock; spin is the process holding lk->lk, 0 when it is free
Initsleeplock == [locked |-> 0, pid |-> 0, spin |-> 0]

\* an inner spinlock that excludes nobody
SlpSpinFree_Always(l) == TRUE

\* acquire(&lk->lk) can return: the inner spinlock is free
SlpSpinFree(l) == l.spin = 0

\* acquiresleep is called
AcquiresleepCall(p) ==
    /\ sp[p] = "idle"
    /\ sp' = [sp EXCEPT ![p] = "as_acquire"]
    /\ UNCHANGED sl

\* acquire(&lk->lk), in acquiresleep or on the way out of sleep
AcquiresleepSpin(p) ==
    /\ sp[p] \in {"as_acquire", "as_wake"}
    /\ SlpSpinFree(sl)
    /\ sl' = [sl EXCEPT !.spin = p]
    /\ sp' = [sp EXCEPT ![p] = "as_check"]

\* while (lk->locked): the test, and the two assignments that follow the
\* loop
AcquiresleepCheck(p) ==
    /\ sp[p] = "as_check"
    /\ IF SleepLockBusy(sl)
       THEN /\ sp' = [sp EXCEPT ![p] = "as_sleep"]
            /\ UNCHANGED sl
       ELSE /\ sl' = [sl EXCEPT !.locked = 1, !.pid = p]
            /\ sp' = [sp EXCEPT ![p] = "as_release"]

\* sleep(lk, &lk->lk): the caller parks on lk and lk->lk is released
AcquiresleepSleep(p) ==
    /\ sp[p] = "as_sleep"
    /\ sl' = [sl EXCEPT !.spin = IF @ = p THEN 0 ELSE @]
    /\ sp' = [sp EXCEPT ![p] = "parked"]

\* release(&lk->lk) at the end of acquiresleep: the caller holds the lock
AcquiresleepReturn(p) ==
    /\ sp[p] = "as_release"
    /\ sl' = [sl EXCEPT !.spin = IF @ = p THEN 0 ELSE @]
    /\ sp' = [sp EXCEPT ![p] = "holding"]

\* releasesleep by the holder: acquire(&lk->lk)
ReleasesleepSpin(p) ==
    /\ sp[p] = "holding"
    /\ SlpSpinFree(sl)
    /\ sl' = [sl EXCEPT !.spin = p]
    /\ sp' = [sp EXCEPT ![p] = "rs_clear"]

\* lk->locked = 0; lk->pid = 0
ReleasesleepClear(p) ==
    /\ sp[p] = "rs_clear"
    /\ sl' = [sl EXCEPT !.locked = 0, !.pid = 0]
    /\ sp' = [sp EXCEPT ![p] = "rs_wakeup"]

\* wakeup(lk)
ReleasesleepWakeup(p) ==
    /\ sp[p] = "rs_wakeup"
    /\ sp' = [q \in SlpProcs |-> IF q = p THEN "rs_release"
                                 ELSE IF sp[q] = "parked" THEN "as_wake"
                                 ELSE sp[q]]
    /\ UNCHANGED sl

\* release(&lk->lk) at the end of releasesleep
ReleasesleepReturn(p) ==
    /\ sp[p] = "rs_release"
    /\ sl' = [sl EXCEPT !.spin = IF @ = p THEN 0 ELSE @]
    /\ sp' = [sp EXCEPT ![p] = "idle"]


(***************************************************************************)
(* Traps from user mode (trap.c): usertrap and usertrapret of one process, *)
(* with device interrupts arriving while the kernel has them enabled and   *)
(* other processes setting the killed flag.                                *)
(***************************************************************************)
\* the causes of a trap from user mode: scause 8, the two interrupts that
\* devintr recognises, anything else
TrapCauses == {"syscall", "external", "timer", "fault"}

\* the value sepc has after an interrupt taken in the kernel
KernelPc == -1

\* the process runs in user mode at pc upc after its first usertrapret;
\* cause and tested are the cause of the trap being handled and whether the
\* test of the killed flag at the end of usertrap has been made in it
Ut0 == [pc |-> "user", mode |-> "U", stvec |-> "uservec", intr |-> TRUE,
        sepc |-> 0, scause |-> "none", epc |-> 0, upc |-> 0,
        killed |-> FALSE, which_dev |-> 0, cause |-> "none",
        tested |-> FALSE, n |-> 0, wrongvec |-> FALSE]

\* a killed() that never sees the flag
Killed_Never(k) == FALSE

\* killed(p)
Killed(k) == k

\* an intr_off that leaves the bit alone
IntrOff_Nop(i) == i

\* the interrupt-enable bit after intr_off()
IntrOff(i) == FALSE

\* the trap: the hardware clears the interrupt-enable bit, sets sepc and
\* scause, and enters uservec, which calls usertrap
UserTraps(cause) ==
    /\ ut.pc = "user"
    /\ ut' = [ut EXCEPT !.pc = "usertrap", !.mode = "S", !.intr = FALSE,
                        !.sepc = ut.upc, !.scause = cause, !.cause = cause,
                        !.which_dev = 0, !.tested = FALSE, !.n = @ + 1]

\* w_stvec(kernelvec)
UsertrapStvec ==
    /\ ut.pc = "usertrap"
    /\ ut' = [ut EXCEPT !.stvec = "kernelvec", !.pc = "epc"]

\* p->trapframe->epc = r_sepc(), and the test of r_scause()
UsertrapEpc ==
    /\ ut.pc = "epc"
    /\ ut' = [ut EXCEPT !.epc = ut.sepc,
                        !.pc = IF ut.scause = "syscall" THEN "sys_killed"
                                                        ELSE "devintr"]

\* system call: if (killed(p)) exit(-1)
UsertrapSysKilled ==
    /\ ut.pc = "sys_killed"
    /\ ut' = [ut EXCEPT !.pc = IF Killed(ut.killed) THEN "exited"
                                                    ELSE "sys_epc"]

\* p->trapframe->epc += 4
UsertrapSysEpc ==
    /\ ut.pc = "sys_epc"
    /\ ut' = [ut EXCEPT !.epc = @ + 4, !.pc = "intr_on"]

\* intr_on()
UsertrapIntrOn ==
    /\ ut.pc = "intr_on"
    /\ ut' = [ut EXCEPT !.intr = TRUE, !.pc = "syscall"]

\* syscall(): it returns, having set the caller's killed flag or not, or it
\* is an exit and does not return
UsertrapSyscall(kills, exits) ==
    /\ ut.pc = "syscall"
    /\ ut' = [ut EXCEPT !.killed = @ \/ kills,
                        !.pc = IF exits THEN "exited" ELSE "killed"]

\* devintr() and, when it returns 0, setkilled(p)
UsertrapDevintr ==
    /\ ut.pc = "devintr"
    /\ LET dev == CASE ut.scause = "external" -> 1
                     [] ut.scause = "timer" -> 2
                     [] OTHER -> 0
       IN ut' = [ut EXCEPT !.which_dev = dev,
                           !.killed = IF dev = 0 THEN TRUE ELSE @,
                           !.pc = "killed"]

\* if (killed(p)) exit(-1); then the test of which_dev
UsertrapKilled ==
    /\ ut.pc = "killed"
    /\ ut' = [ut EXCEPT !.tested = TRUE,
                        !.pc = IF Killed(ut.killed) THEN "exited"
                               ELSE IF ut.which_dev = 2 THEN "yield"
                               ELSE "intr_off"]

\* yield() returns
UsertrapYield ==
    /\ ut.pc = "yield"
    /\ ut' = [ut EXCEPT !.pc = "intr_off"]

\* usertrapret: intr_off()
UsertrapretIntrOff ==
    /\ ut.pc = "intr_off"
    /\ ut' = [ut EXCEPT !.intr = IntrOff(@), !.pc = "ret_stvec"]

\* usertrapret: w_stvec(trampoline_uservec)
UsertrapretStvec ==
    /\ ut.pc = "ret_stvec"
    /\ ut' = [ut EXCEPT !.stvec = "uservec", !.pc = "ret_sepc"]

\* usertrapret: the trap frame's kernel fields, sstatus, w_sepc(epc)
UsertrapretSepc ==
    /\ ut.pc = "ret_sepc"
    /\ ut' = [ut EXCEPT !.sepc = ut.epc, !.pc = "userret"]

\* userret's sret: user mode at sepc, interrupts enabled (SPIE)
Userret ==
    /\ ut.pc = "userret"
    /\ ut' = [ut EXCEPT !.mode = "U", !.upc = ut.sepc, !.intr = TRUE,
                        !.pc = "user"]

\* another process sets the killed flag
Kill ==
    /\ ut.pc # "exited"
    /\ ~ut.killed
    /\ ut' = [ut EXCEPT !.killed = TRUE]

\* a device interrupt while in the kernel with interrupts enabled: the
\* hardware overwrites sepc and scause and jumps to stvec; kerneltrap
\* returns with sepc as it found it
KernelIntr ==
    /\ ut.mode = "S" /\ ut.intr
    /\ ut.pc \notin {"user", "exited"}
    /\ IF ut.stvec = "kernelvec"
       THEN ut' = [ut EXCEPT !.sepc = KernelPc, !.scause = "external"]
       ELSE ut' = [ut EXCEPT !.wrongvec = TRUE]


(***************************************************************************)
Init ==
    /\ disk = FreshDisk
    /\ buf = [b \in Bufs |-> ZeroBuf]
    /\ lru = BinitList
    /\ dtrace = << >>
    /\ panicked = FALSE
    /\ log = ZeroLog
    /\ proc = [p \in Procs |-> ZeroProc]
    /\ boot = Boot0
    /\ opS = [p \in Procs |-> {}]
    /\ stamp = 0
    /\ crashes = 0
    /\ tx = NoTx
    /\ cut = NoCut
    /\ bp = [p \in Procs |-> BioIdle]
    /\ bhist = [zero |-> << >>, rel |-> << >>]
    /\ pipe = Pipe0
    /\ pp = [p \in PProcs |-> PIdle]
    /\ pstream = [next |-> 1, stored |-> << >>, accepted |-> << >>,
                  delivered |-> << >>]
    /\ pkilled = {}
    /\ kmem = Kinit.kmem
    /\ kframe = Kinit.kframe
    /\ kp = [c \in KCpus |-> KIdle]
    /\ korder = [k \in 1..NFRAMES |-> k]
    /\ slk = [l \in SLocks |-> Initlock]
    /\ scpu = [c \in SCpus |-> SCpu0]
    /\ ex = Ex0
    /\ eproc = EProc0
    /\ epts = [q \in PtIds |-> IF q = 1 THEN [live |-> TRUE, sz |-> 3 * PGSIZE]
                                        ELSE NoPt]
    /\ sl = Initsleeplock
    /\ sp = [p \in SlpProcs |-> "idle"]
    /\ ut = Ut0

\* what the log's specification leaves alone
notLog == <<bioVars, pipeVars, memVars, spinVars, execVars, restVars>>

NextLog ==
    \/ \E p \in Procs : BeginOp(p) /\ UNCHANGED notLog
    \/ \E p \in Procs, b \in Home :
          stamp < MaxStamp /\ OpBget(p, b) /\ UNCHANGED notLog
    \/ \E p \in Procs : OpLock(p) /\ UNCHANGED notLog
    \/ \E p \in Procs : OpLogWrite(p) /\ UNCHANGED notLog
    \/ \E p \in Procs : OpBrelse(p) /\ UNCHANGED notLog
    \/ \E p \in Procs : EndOp(p) /\ UNCHANGED notLog
    \/ \E p \in Procs : CommitWriteLog(p) /\ UNCHANGED notLog
    \/ \E p \in Procs : CommitWriteHead(p) /\ UNCHANGED notLog
    \/ \E p \in Procs : CommitInstall(p) /\ UNCHANGED notLog
    \/ \E p \in Procs : CommitClearHead(p) /\ UNCHANGED notLog
    \/ \E p \in Procs : EndCommit(p) /\ UNCHANGED notLog
    \/ Crash /\ UNCHANGED notLog
    \/ RecoverReadHead /\ UNCHANGED notLog
    \/ RecoverInstall /\ UNCHANGED notLog
    \/ RecoverClearHead /\ UNCHANGED notLog
    \/ InitlogReturn /\ UNCHANGED notLog

SpecLog == Init /\ [][NextLog]_vars

\* the number of buffer modifications in one run of SpecGroup: enough to
\* log every block of GroupHome and one of them once more
GroupStamps == NBUF + 1

\* the log without power cuts, its operations writing the blocks of
\* GroupHome; the boot finds the empty log of a fresh disk, so
\* install_trans(1) has nothing to do
NextGroup ==
    \/ \E p \in Procs : BeginOp(p) /\ UNCHANGED notLog
    \/ \E p \in Procs, b \in GroupHome :
          stamp < GroupStamps /\ OpBget(p, b) /\ UNCHANGED notLog
    \/ \E p \in Procs : OpLock(p) /\ UNCHANGED notLog
    \/ \E p \in Procs : OpLogWrite(p) /\ UNCHANGED notLog
    \/ \E p \in Procs : OpBrelse(p) /\ UNCHANGED notLog
    \/ \E p \in Procs : EndOp(p) /\ UNCHANGED notLog
    \/ \E p \in Procs : CommitWriteLog(p) /\ UNCHANGED notLog
    \/ \E p \in Procs : CommitWriteHead(p) /\ UNCHANGED notLog
    \/ \E p \in Procs : CommitInstall(p) /\ UNCHANGED notLog
    \/ \E p \in Procs : CommitClearHead(p) /\ UNCHANGED notLog
    \/ \E p \in Procs : EndCommit(p) /\ UNCHANGED notLog
    \/ RecoverReadHead /\ UNCHANGED notLog
    \/ RecoverClearHead /\ UNCHANGED notLog
    \/ InitlogReturn /\ UNCHANGED notLog

SpecGroup == Init /\ [][NextGroup]_vars

\* a step of process p other than a call of begin_op and other than the
\* disk I/O of commit(): a process that is inside begin_op, an operation or
\* end_op is scheduled again
LogRuns(p) ==
    /\ proc[p].pc # "idle"
    /\ \/ BeginOp(p) \/ OpLock(p) \/ OpLogWrite(p) \/ OpBrelse(p) \/ EndOp(p)
       \/ EndCommit(p)
    /\ UNCHANGED notLog

\* process p is inside commit(), at one of the steps that do disk I/O
InCommitIO(p) == Running /\ proc[p].pc \in CommitPcs \ {"end_commit"}

\* the group of operations that fills the log: NBUF modifications, the
\* k-th of them to the k-th block of GroupHome
NextAdmit ==
    \/ \E p \in Procs : BeginOp(p) /\ UNCHANGED notLog
    \/ \E p \in Procs, b \in GroupHome :
          /\ stamp < NBUF /\ b = LogStart + LOGSIZE + 1 + stamp
          /\ OpBget(p, b) /\ UNCHANGED notLog
    \/ \E p \in Procs : OpLock(p) /\ UNCHANGED notLog
    \/ \E p \in Procs : OpLogWrite(p) /\ UNCHANGED notLog
    \/ \E p \in Procs : OpBrelse(p) /\ UNCHANGED notLog
    \/ \E p \in Procs : EndOp(p) /\ UNCHANGED notLog
    \/ \E p \in Procs : CommitWriteLog(p) /\ UNCHANGED notLog
    \/ \E p \in Procs : CommitWriteHead(p) /\ UNCHANGED notLog
    \/ \E p \in Procs : CommitInstall(p) /\ UNCHANGED notLog
    \/ \E p \in Procs : CommitClearHead(p) /\ UNCHANGED notLog
    \/ \E p \in Procs : EndCommit(p) /\ UNCHANGED notLog
    \/ RecoverReadHead /\ UNCHANGED notLog
    \/ RecoverClearHead /\ UNCHANGED notLog
    \/ InitlogReturn /\ UNCHANGED notLog

SpecAdmit == Init /\ [][NextAdmit]_vars

\* SpecAdmit under a scheduler that runs every runnable process again (an
\* operation in progress reaches its end_op, a woken begin_op tests again),
\* with a disk that completes the I/O of every commit
SpecAdmitFair ==
    /\ SpecAdmit
    /\ \A p \in Procs : WF_vars(LogRuns(p))
    /\ \A p \in Procs : []<>(~InCommitIO(p))


(***************************************************************************)
(* Properties of the log.                                                  *)
(***************************************************************************)
\* C1: after a power cut inside end_op's commit and the recovery that
\* follows, the home blocks of the transaction are all at their
\* post-transaction contents when the header with n > 0 had landed, and all
\* at their pre-transaction contents when it had not; the other home blocks
\* are as before.
CrashAtomicity ==
    (boot.pc = "recovered" /\ cut.kind = "commit") =>
        /\ IF cut.landed
           THEN \A b \in cut.S : disk[b] = cut.post[b]
           ELSE \A b \in cut.S : disk[b] = cut.pre[b]
        /\ \A b \in Home \ cut.S : disk[b] = cut.pre[b]

\* C1 witness: recovery has finished after a power cut that interrupted the
\* commit of a two-block transaction whose header had landed.
CrashAtomicityWitness ==
    /\ boot.pc = "recovered"
    /\ cut.kind = "commit"
    /\ cut.landed
    /\ Cardinality(cut.S) >= 2
    /\ \A b \in cut.S : cut.pre[b] # cut.post[b] /\ disk[b] = cut.post[b]

\* end_op returns to process p (a power cut is not a return)
EndOpReturns(p) ==
    /\ proc[p].pc \in {"op", "end_commit"}
    /\ proc'[p].pc = "idle"
    /\ crashes' = crashes

\* C2 as claimed: whenever an end_op returns, the blocks its operation
\* logged have their post-transaction contents at their home location.
DurableOnEveryReturn ==
    [][\A p \in Procs :
          EndOpReturns(p) => \A b \in opS[p] : disk'[b] = tx.post[b]]_vars

\* C2 amended: when the end_op that commits returns, every block logged in
\* the transaction (by this and by the earlier operations of the group) has
\* its post-transaction contents at its home location.
DurableOnCommitReturn ==
    [][\A p \in Procs :
          (EndOpReturns(p) /\ proc[p].pc = "end_commit") =>
              /\ opS[p] \subseteq tx.S
              /\ \A b \in tx.S : disk'[b] = tx.post[b]]_vars

\* C2 witness: the committing end_op is about to return from a transaction
\* of two blocks, one of them logged by an operation that ended earlier.
DurableWitness ==
    \E p \in Procs :
        /\ proc[p].pc = "end_commit"
        /\ Cardinality(tx.S) >= 2
        /\ opS[p] # tx.S
        /\ \A b \in tx.S : disk[b] = tx.post[b] /\ tx.pre[b] # tx.post[b]

\* the positions of the traced disk writes
TracePos == 1..Len(dtrace)

\* C3: inside commit, every log body block 1..n is written before the header
\* with n > 0; a home block is written only after that header; the header
\* with n = 0 is written only after every home block of the transaction.
WriteAheadOrder ==
    InCommit =>
        /\ \A i \in TracePos :
              dtrace[i].n > 0 =>
                  \A k \in 1..dtrace[i].n :
                      \E j \in 1..(i - 1) : dtrace[j].blk = LogStart + k
        /\ \A i \in TracePos :
              dtrace[i].blk \in Home =>
                  /\ dtrace[i].blk \in tx.S
                  /\ \E j \in 1..(i - 1) : dtrace[j].n > 0
        /\ \A i \in TracePos :
              dtrace[i].n = 0 =>
                  \A b \in tx.S :
                      \E j \in 1..(i - 1) : dtrace[j].blk = b

\* C3 witness: commit has written everything for a two-block transaction.
WriteAheadWitness ==
    \E p \in Procs :
        /\ proc[p].pc = "end_commit"
        /\ Cardinality(tx.S) >= 2
        /\ Len(dtrace) = 2 * Cardinality(tx.S) + 2

\* C4: once initlog has returned, whenever no operation is outstanding and
\* no commit is in progress the header on disk has n = 0.
QuiescentLogEmpty ==
    (boot.pc \in {"recovered", "run"}
        /\ log.outstanding = 0 /\ log.committing = 0)
    => disk[LogStart].n = 0

\* C4 witness: the log is quiescent after a commit has installed a block.
QuiescentWitness ==
    /\ boot.pc = "run"
    /\ ~panicked
    /\ log.outstanding = 0
    /\ log.committing = 0
    /\ \E b \in Home : disk[b] # 0
    /\ \E i \in 1..LOGSIZE : disk[LogStart].block[i] # 0

\* C5: recovery that is itself cut short and run again leaves the home
\* blocks as one uninterrupted recovery of the disk found at the first power
\* cut; recovery of a log whose header has n = 0 writes no home block.
RecoveryIdempotent ==
    /\ (boot.pc = "recovered" /\ cut.kind # "none") =>
          \A b \in Home : disk[b] = cut.expect[b]
    /\ (boot.pc \in {"install", "clear_head", "recovered"} /\ boot.n = 0) =>
          \A i \in TracePos : dtrace[i].blk \notin Home

\* C5 witness: recovery has finished after an earlier recovery was cut
\* short in the middle of installing a committed two-block transaction.
RecoveryWitness ==
    /\ boot.pc = "recovered"
    /\ cut.kind = "commit"
    /\ cut.partial
    /\ Cardinality(cut.S) >= 2
    /\ \E b \in cut.S : cut.expect[b] # cut.pre[b]


\* what the buffer cache's specification leaves alone
notBio == <<log, proc, boot, opS, stamp, crashes, tx, cut, bhist, pipe, pp,
           pstream, pkilled, memVars, spinVars, execVars, restVars>>

NextBio ==
    \/ \E p \in Procs, b \in BioBlocks : BioBget(p, b) /\ UNCHANGED notBio
    \/ \E p \in Procs : BioLock(p) /\ UNCHANGED notBio
    \/ \E p \in Procs, b \in Bufs : BioReleaseSleep(p, b) /\ UNCHANGED notBio
    \/ \E p \in Procs : BioBrelse(p) /\ UNCHANGED notBio
    \/ \E p \in Procs, b \in Bufs : BioPin(p, b) /\ UNCHANGED notBio
    \/ \E p \in Procs, b \in Bufs : BioUnpin(p, b) /\ UNCHANGED notBio

SpecBio == Init /\ [][NextBio]_vars

\* process p may take one more pin: the callers of bpin that are modelled
\* with the history hold at most MaxPin pins between them, one process at a
\* time
LruPinRoom(p) ==
    /\ Cardinality(UNION {bp[q].pinned : q \in Procs}) < MaxPin
    /\ \A q \in Procs : bp[q].pinned # {} => q = p

\* the buffer cache with the history of its free buffers recorded
notLru == <<log, proc, boot, opS, stamp, crashes, tx, cut, pipe, pp, pstream,
           pkilled, memVars, spinVars, execVars, restVars>>

NextLru ==
    \/ \E p \in Procs, b \in BioBlocks :
          BioBget(p, b) /\ HistBget(p) /\ UNCHANGED notLru
    \/ \E p \in Procs : BioLock(p) /\ UNCHANGED <<bhist, notLru>>
    \/ \E p \in Procs, b \in Bufs :
          BioReleaseSleep(p, b) /\ UNCHANGED <<bhist, notLru>>
    \/ \E p \in Procs : BioBrelse(p) /\ HistBrelse(p) /\ UNCHANGED notLru
    \/ \E p \in Procs, b \in Bufs :
          LruPinRoom(p) /\ BioPin(p, b) /\ UNCHANGED <<bhist, notLru>>
    \/ \E p \in Procs, b \in Bufs :
          BioUnpin(p, b) /\ HistUnpin(b) /\ UNCHANGED notLru

SpecLru == Init /\ [][NextLru]_vars

\* processes calling bread on the home blocks, and bwrite and brelse on
\* buffers they hold and on buffers they do not
NextExcl ==
    \/ \E p \in Procs, b \in Home : BioBget(p, b) /\ UNCHANGED notBio
    \/ \E p \in Procs : BioLock(p) /\ UNCHANGED notBio
    \/ \E p \in Procs, b \in Bufs : BioReleaseSleep(p, b) /\ UNCHANGED notBio
    \/ \E p \in Procs : BioBrelse(p) /\ UNCHANGED notBio
    \/ \E p \in Procs, b \in Bufs :
          Len(dtrace) < MaxWrite /\ BioBwriteCall(p, b) /\ UNCHANGED notBio
    \/ \E p \in Procs : BioBwrite(p) /\ UNCHANGED notBio
    \/ \E p \in Procs, b \in Bufs : BioBrelseStray(p, b) /\ UNCHANGED notBio

SpecExcl == Init /\ [][NextExcl]_vars

(***************************************************************************)
(* Properties of the buffer cache.                                         *)
(***************************************************************************)
\* C6: no two buffers with refcnt > 0 have the same (dev, blockno), and no
\* two buffers at all carry the same identity that bget has assigned: two
\* racing bgets for one uncached block never both repurpose a buffer.
BufferIdentityUnique ==
    \A b1, b2 \in Bufs :
        (/\ b1 # b2
         /\ buf[b1].dev = buf[b2].dev
         /\ buf[b1].blockno = buf[b2].blockno)
        => /\ buf[b1].refcnt = 0 \/ buf[b2].refcnt = 0
           /\ buf[b1].dev # DEV

\* C6 witness: two processes have raced through bget for the same block;
\* both got the same buffer, now with refcnt 2, and neither has its sleep
\* lock yet.
BufferRaceWitness ==
    \E b \in Bufs :
        /\ buf[b].refcnt = 2
        /\ buf[b].dev = DEV
        /\ \A p \in Procs : bp[p].pc = "lock" /\ bp[p].b = b


\* what the pipe's specification leaves alone
notPipe == <<disk, buf, lru, dtrace, panicked, log, proc, boot, opS, stamp,
             crashes, tx, cut, bioVars, memVars, spinVars, execVars,
             restVars>>

NextPipe ==
    \/ \E p \in PWriters, n \in 0..MaxN, f \in 0..MaxN :
          f <= n /\ PipeWriteCall(p, n, f) /\ UNCHANGED notPipe
    \/ \E p \in PWriters : PipeWriteStep(p) /\ UNCHANGED notPipe
    \/ \E p \in PWriters : PipeWriteWake(p) /\ UNCHANGED notPipe
    \/ \E p \in PReaders, n \in 0..MaxN, f \in 0..MaxN :
          f <= n /\ PipeReadCall(p, n, f) /\ UNCHANGED notPipe
    \/ \E p \in PReaders : PipeReadWait(p) /\ UNCHANGED notPipe
    \/ \E p \in PReaders : PipeReadWake(p) /\ UNCHANGED notPipe
    \/ \E p \in PReaders : PipeReadCopy(p) /\ UNCHANGED notPipe
    \/ \E w \in {0, 1} : PipeClose(w) /\ UNCHANGED notPipe
    \/ \E p \in PWriters \cup PReaders : PipeKill(p) /\ UNCHANGED notPipe

SpecPipe == Init /\ [][NextPipe]_vars

\* the pipe with two writers and two readers, nobody killed, the read end
\* kept open and every copyin and copyout succeeding
NextShare ==
    \/ \E p \in AllWriters, n \in {1, MaxN} :
          PipeWriteCall(p, n, n) /\ UNCHANGED notPipe
    \/ \E p \in AllWriters : PipeWriteStep(p) /\ UNCHANGED notPipe
    \/ \E p \in AllWriters : PipeWriteWake(p) /\ UNCHANGED notPipe
    \/ \E p \in AllReaders, n \in {MaxN} :
          PipeReadCall(p, n, n) /\ UNCHANGED notPipe
    \/ \E p \in AllReaders : PipeReadWait(p) /\ UNCHANGED notPipe
    \/ \E p \in AllReaders : PipeReadWake(p) /\ UNCHANGED notPipe
    \/ \E p \in AllReaders : PipeReadCopy(p) /\ UNCHANGED notPipe
    \/ PipeClose(1) /\ UNCHANGED notPipe

SpecShare == Init /\ [][NextShare]_vars

\* a step of process p inside pipewrite or piperead
PipeRuns(p) ==
    /\ pp[p].pc # "idle"
    /\ \/ PipeWriteStep(p) \/ PipeWriteWake(p)
       \/ PipeReadWait(p) \/ PipeReadWake(p) \/ PipeReadCopy(p)
    /\ UNCHANGED notPipe

\* sleep's acquire(&pi->lock) after the wakeup, by process p
PipeAcquires(p) ==
    /\ PipeWriteWake(p) \/ PipeReadWake(p)
    /\ UNCHANGED notPipe

\* SpecShare under a scheduler that runs every runnable process again, with
\* a spinlock that a spinning process gets when it is free again and again
SpecShareFair ==
    /\ SpecShare
    /\ \A p \in PProcs : WF_vars(PipeRuns(p)) /\ SF_vars(PipeAcquires(p))


\* no process is inside pipewrite or piperead
PipeQuiet == \A p \in PProcs : pp[p].pc = "idle"

IsPrefix(s, t) == Len(s) <= Len(t) /\ SubSeq(t, 1, Len(s)) = s

(***************************************************************************)
(* C7: the bytes the reader has been given are, in order and without loss  *)
(* or duplication, a prefix of the bytes of the pipewrite calls that       *)
(* returned a count; looked at whenever no call is in progress.            *)
(***************************************************************************)
PipeIsByteStream ==
    PipeQuiet => IsPrefix(pstream.delivered, pstream.accepted)

(***************************************************************************)
(* C8: the ring never holds more than PIPESIZE unread bytes, every unread  *)
(* position still holds the byte that was stored there, and the bytes of   *)
(* a pipewrite that returned a count were each stored once and are still   *)
(* in the ring or already consumed.                                        *)
(***************************************************************************)
PipeBounded ==
    /\ pipe.nwrite - pipe.nread \in 0..PIPESIZE
    /\ Len(pstream.stored) = pipe.nwrite
    /\ \A k \in (pipe.nread + 1)..pipe.nwrite :
          pipe.data[(k - 1) % PIPESIZE] = pstream.stored[k]
    /\ \A w \in PWriters :
          pp[w].pc = "idle" /\ pp[w].ret > 0 =>
              \A j \in 0..(pp[w].ret - 1) :
                  Cardinality({k \in 1..Len(pstream.stored) :
                                 pstream.stored[k] = pp[w].base + j}) = 1

\* a pipewrite of more than the ring holds has returned its n, the ring full
PipeBoundedWitness ==
    \E w \in PWriters :
        /\ pp[w].pc = "idle"
        /\ pp[w].ret = PIPESIZE + 1
        /\ pp[w].slept
        /\ pipe.nwrite - pipe.nread = PIPESIZE

(***************************************************************************)
(* C9: with the write end closed no reader sleeps, and a piperead goes on  *)
(* to copy what the ring holds and returns that count (all it asked for,   *)
(* or all there was: 0 when the ring is empty), never -1; with the read    *)
(* end closed no writer sleeps, and a pipewrite that still has a byte to   *)
(* write returns -1.                                                       *)
(***************************************************************************)
ClosedEndNeverBlocks ==
    /\ [](pipe.writeopen = 0 => \A r \in PReaders : pp[r].pc # "rsleep")
    /\ [](pipe.readopen = 0 => \A w \in PWriters : pp[w].pc # "wsleep")
    /\ [][\A r \in PReaders :
            /\ pipe.writeopen = 0 /\ pp[r].pc = "rwait" /\ pp'[r] # pp[r]
                  => pp'[r].pc = "rcopy"
            /\ pipe.writeopen = 0 /\ pp[r].pc = "rcopy" /\ pp'[r].pc = "idle"
                  => /\ pp'[r].ret = pp[r].i
                     /\ \/ pp'[r].ret = pp[r].n
                        \/ PipeEmpty(pipe')
                        \/ pp'[r].why = "fault"]_vars
    /\ [][\A w \in PWriters :
            pipe.readopen = 0 /\ pp[w].pc = "wloop" /\ pp[w].i < pp[w].n
                /\ pp'[w] # pp[w]
            => pp'[w].pc = "idle" /\ pp'[w].ret = -1]_vars

\* a piperead that slept on the empty ring has returned 0 after the close
ClosedEndWitness ==
    \E r \in PReaders :
        /\ pipe.writeopen = 0
        /\ pp[r].pc = "idle" /\ pp[r].slept /\ pp[r].n > 0
        /\ pp[r].ret = 0 /\ pp[r].why = "done"
        /\ r \notin pkilled

(***************************************************************************)
(* C10: a pipewrite or piperead that returns because it saw the killed     *)
(* flag returns the number of bytes it had transferred, and -1 only when   *)
(* it had transferred none.                                                *)
(***************************************************************************)
KilledReturnsCount ==
    \A p \in PProcs :
        pp[p].pc = "idle" /\ pp[p].why = "killed" =>
            pp[p].ret = IF pp[p].i > 0 THEN pp[p].i ELSE -1


\* what the allocator's specification leaves alone
notMem == <<disk, buf, lru, dtrace, log, proc, boot, opS, stamp, crashes, tx,
            cut, bioVars, pipeVars, spinVars, execVars, restVars>>

NextMem ==
    \/ \E c \in KCpus, pa \in 0..(NFRAMES + 1) :
          KfreeCall(c, pa) /\ UNCHANGED notMem
    \/ \E c \in KCpus : KfreeAcquire(c) /\ UNCHANGED notMem
    \/ \E c \in KCpus : KfreeLink(c) /\ UNCHANGED notMem
    \/ \E c \in KCpus : KfreeHead(c) /\ UNCHANGED notMem
    \/ \E c \in KCpus : KallocCall(c) /\ UNCHANGED notMem
    \/ \E c \in KCpus : KallocAcquire(c) /\ UNCHANGED notMem
    \/ \E c \in KCpus : KallocRead(c) /\ UNCHANGED notMem
    \/ \E c \in KCpus : KallocPop(c) /\ UNCHANGED notMem
    \/ \E c \in KCpus : KallocReturn(c) /\ UNCHANGED notMem

SpecMem == Init /\ [][NextMem]_vars

\* the CPUs that hold frame f: in a caller's hands, in kfree's r before the
\* push, or in kalloc's r after the pop
FrameHolders(f) ==
    {c \in KCpus :
        \/ f \in kp[c].owned
        \/ kp[c].r = f /\ kp[c].pc \in {"kf_acq", "kf_link", "kf_head", "ka_ret"}}

\* how many times frame f is on the freelist
FreeCount(f) == Cardinality({k \in 1..Len(FreeList) : FreeList[k] = f})

(***************************************************************************)
(* C11: every frame is either on the freelist exactly once and held by no  *)
(* CPU, or not on the freelist and held by exactly one CPU; so two         *)
(* outstanding kalloc results are distinct, and a frame whose kfree has    *)
(* returned is on the freelist for a later kalloc.                         *)
(***************************************************************************)
FrameOwnership ==
    /\ \A f \in Frames :
          \/ FreeCount(f) = 1 /\ FrameHolders(f) = {}
          \/ FreeCount(f) = 0 /\ Cardinality(FrameHolders(f)) = 1
    /\ \A c, d \in KCpus : c # d => kp[c].owned \cap kp[d].owned = {}

\* both CPUs hold a frame from kalloc while a frame one of them freed is
\* back on the freelist
FrameOwnershipWitness ==
    /\ \A c \in KCpus : kp[c].pc = "idle" /\ kp[c].owned # {}
    /\ Len(korder) = 1 /\ korder[1] # 1


Reverse(s) == [k \in 1..Len(s) |-> s[Len(s) + 1 - k]]

\* the frame most recently pushed by kfree and not allocated since, or 0
LastPushed == IF korder = << >> THEN 0 ELSE korder[Len(korder)]

(***************************************************************************)
(* C12: the freelist is the pushed-and-not-reallocated frames, most recent *)
(* first; kalloc takes the most recently pushed of them, and it returns 0  *)
(* exactly when the freelist is empty, the freelist then staying as it is. *)
(***************************************************************************)
KallocLifo ==
    /\ [](FreeList = Reverse(korder))
    /\ [][\A c \in KCpus :
            /\ kp[c].pc = "ka_pop" /\ kp'[c].pc = "ka_ret"
                  => /\ kp[c].r = LastPushed
                     /\ kp[c].r = 0 <=> FreeList = << >>
                     /\ kp[c].r = 0 => kmem'.freelist = kmem.freelist
            /\ kp[c].pc = "ka_ret" /\ kp'[c].pc = "idle"
                  => kp'[c].ret = kp[c].r]_vars

\* a kalloc has returned the frame a kfree pushed last, older frames being
\* free, and another kalloc has returned 0 from the empty freelist
KallocLifoWitness ==
    \E c, d \in KCpus :
        /\ kp[c].pc = "idle" /\ kp[c].ret = 1 /\ 1 \in kp[c].owned
        /\ kp[d].pc = "idle" /\ kp[d].ret = 0 /\ kp[d].owned # {}
        /\ Len(korder) >= 1


\* what the spinlocks' specification leaves alone
notSpin == <<disk, buf, lru, dtrace, log, proc, boot, opS, stamp, crashes, tx,
             cut, bioVars, pipeVars, memVars, execVars, restVars>>

NextSpin ==
    \/ \E c \in SCpus, on \in BOOLEAN : SetIntr(c, on) /\ UNCHANGED notSpin
    \/ \E c \in SCpus, l \in SLocks : AcquireCall(c, l) /\ UNCHANGED notSpin
    \/ \E c \in SCpus : AcquirePush(c) /\ UNCHANGED notSpin
    \/ \E c \in SCpus : AcquireCheck(c) /\ UNCHANGED notSpin
    \/ \E c \in SCpus : AcquireSwap(c) /\ UNCHANGED notSpin
    \/ \E c \in SCpus : AcquireReturn(c) /\ UNCHANGED notSpin
    \/ \E c \in SCpus, l \in SLocks : ReleaseCall(c, l) /\ UNCHANGED notSpin
    \/ \E c \in SCpus : ReleaseCpu(c) /\ UNCHANGED notSpin
    \/ \E c \in SCpus : ReleaseWord(c) /\ UNCHANGED notSpin
    \/ \E c \in SCpus : PushOffCall(c) /\ UNCHANGED notSpin
    \/ \E c \in SCpus : PushOffReturn(c) /\ UNCHANGED notSpin
    \/ \E c \in SCpus : PopOffCall(c) /\ UNCHANGED notSpin
    \/ \E c \in SCpus : PopOffCheck(c) /\ UNCHANGED notSpin
    \/ \E c \in SCpus : PopOffReturn(c) /\ UNCHANGED notSpin

SpecSpin == Init /\ [][NextSpin]_vars

\* the CPUs inside the critical section of lock l
SHolders(l) == {c \in SCpus : l \in scpu[c].held}

(***************************************************************************)
(* C13: at most one CPU is between acquire's return and the release of a   *)
(* lock; a lock somebody is inside is locked; and whenever locked is set   *)
(* and cpu is not null, cpu is the CPU inside.                             *)
(***************************************************************************)
SpinMutex ==
    \A l \in SLocks :
        /\ Cardinality(SHolders(l)) <= 1
        /\ SHolders(l) # {} => slk[l].locked = 1
        /\ slk[l].locked = 1 /\ slk[l].cpu # 0 => SHolders(l) = {slk[l].cpu}

\* one CPU is inside lock 1 while the other spins on it
SpinMutexWitness ==
    \E c, d \in SCpus :
        /\ 1 \in scpu[c].held /\ slk[1].cpu = c
        /\ scpu[d].pc = "acq_spin" /\ scpu[d].lk = 1


(***************************************************************************)
(* C14 as stated: on every CPU noff >= 0, noff > 0 implies interrupts are  *)
(* disabled, and interrupts are disabled whenever the CPU holds a          *)
(* spinlock, after any sequence of push_off/pop_off/acquire/release.       *)
(***************************************************************************)
IntrOffWhenNoffOrHolding ==
    \A c \in SCpus :
        /\ scpu[c].noff >= 0
        /\ scpu[c].noff > 0 => ~scpu[c].intr
        /\ scpu[c].held # {} => ~scpu[c].intr

(***************************************************************************)
(* C14: on every CPU noff >= 0 and noff > 0 implies interrupts are         *)
(* disabled, after any sequence of push_off/pop_off/acquire/release; as    *)
(* long as the CPU has called no pop_off without a push_off of its own to  *)
(* match, noff counts at least the locks it holds, so interrupts are then  *)
(* disabled while it holds a spinlock.                                     *)
(***************************************************************************)
IntrOffWhenNoff ==
    \A c \in SCpus :
        /\ scpu[c].noff >= 0
        /\ scpu[c].noff > 0 => ~scpu[c].intr
        /\ ~scpu[c].unmatched =>
              /\ scpu[c].noff >= Cardinality(scpu[c].held) + scpu[c].depth
              /\ scpu[c].held # {} => ~scpu[c].intr

\* a CPU that had interrupts on holds both locks, interrupts off, noff = 2
IntrOffWitness ==
    \E c \in SCpus :
        /\ scpu[c].held = SLocks /\ scpu[c].noff = 2 /\ scpu[c].pc = "idle"
        /\ scpu[c].intena /\ ~scpu[c].intr /\ ~scpu[c].unmatched

(***************************************************************************)
(* C15: interrupts are turned on only by the pop_off that brings noff to   *)
(* 0 (or by code outside, at noff = 0), and that pop_off leaves them as    *)
(* they were just before the outermost push_off: on if they were on, off   *)
(* if they were off; a pop_off that leaves noff > 0 never turns them on.   *)
(***************************************************************************)
NestedRestore ==
    [][\A c \in SCpus :
         /\ ~scpu[c].intr /\ scpu'[c].intr
               => \/ scpu[c].pc = "pop_on" /\ scpu'[c].noff = 0
                       /\ scpu[c].before
                  \/ scpu[c].pc = "idle" /\ scpu[c].noff = 0
         /\ scpu[c].pc = "pop_on" /\ scpu'[c].pc = "idle"
               /\ scpu'[c].noff = 0
               => scpu'[c].intr = scpu[c].before]_vars

\* the release of the inner lock has returned with noff = 1: interrupts,
\* on before the outer acquire, are still off
NestedRestoreWitness ==
    \E c \in SCpus :
        /\ scpu[c].pc = "idle" /\ scpu[c].noff = 1
        /\ Cardinality(scpu[c].held) = 1 /\ scpu[c].depth = 0
        /\ scpu[c].before /\ scpu[c].intena /\ ~scpu[c].intr
        /\ \E l \in SLocks : l \notin scpu[c].held /\ slk[l] = Initlock
        /\ \A d \in SCpus \ {c} : scpu[d] = SCpu0

(***************************************************************************)
(* C16: an acquire by the CPU that holds the lock panics; a release gets   *)
(* past its check only on the CPU that holds the lock and panics           *)
(* otherwise; pop_off panics when interrupts are on or noff < 1; a panic   *)
(* leaves locked and cpu of every lock as they were; acquire returns only  *)
(* to a CPU that was not holding, so acquires and releases alternate.      *)
(***************************************************************************)
SpinMisuseFatal ==
    [][\A c \in SCpus :
         /\ scpu[c].pc = "acq_hold" /\ scpu[c].lk \in scpu[c].held
               /\ scpu'[c] # scpu[c]
               => scpu'[c].pc = "panic"
         /\ scpu[c].pc = "idle" /\ scpu'[c].pc = "rel_cpu"
               => scpu'[c].lk \in scpu[c].held
         /\ scpu[c].pc = "idle" /\ scpu'[c].pc = "panic"
               => scpu'[c].lk \notin scpu[c].held
         /\ scpu[c].pc = "pop" /\ scpu'[c] # scpu[c]
               => IF scpu[c].intr \/ scpu[c].noff < 1
                  THEN scpu'[c].pc = "panic"
                  ELSE scpu'[c].pc = "pop_on"
         /\ scpu[c].pc # "panic" /\ scpu'[c].pc = "panic"
               => slk' = slk /\ panicked'
         /\ scpu[c].pc = "acq_cpu" /\ scpu'[c].pc = "idle"
               => scpu[c].lk \notin scpu[c].held]_vars

\* a CPU has panicked in acquire of a lock it holds, the lock still its own
SpinMisuseWitness ==
    \E c \in SCpus :
        /\ scpu[c].pc = "panic" /\ scpu[c].lk \in scpu[c].held
        /\ slk[scpu[c].lk] = [locked |-> 1, cpu |-> c]
        /\ panicked


\* what exec's specification leaves alone
notExec == <<disk, buf, lru, dtrace, panicked, log, proc, boot, opS, stamp,
             crashes, tx, cut, bioVars, pipeVars, memVars, spinVars,
             restVars>>

NextExec ==
    \/ \E n \in 0..(MAXARG + 1), found \in BOOLEAN :
          ExecCall(n, found) /\ UNCHANGED notExec
    \/ \E o \in {"ok", "short", "magic"}, n \in 0..MaxSeg :
          ExecHeader(o, n) /\ UNCHANGED notExec
    \/ \E ok \in BOOLEAN : ExecPagetable(ok) /\ UNCHANGED notExec
    \/ \E k \in SegKinds : ExecSegment(k) /\ UNCHANGED notExec
    \/ ExecSegsDone /\ UNCHANGED notExec
    \/ \E ok \in BOOLEAN : ExecStack(ok) /\ UNCHANGED notExec
    \/ \E len \in ArgLens, ok \in BOOLEAN : ExecArg(len, ok) /\ UNCHANGED notExec
    \/ \E ok \in BOOLEAN, hit \in UstackNeighbours :
          ExecArgv(ok, hit) /\ UNCHANGED notExec
    \/ ExecA1Name /\ UNCHANGED notExec
    \/ ExecCommit /\ UNCHANGED notExec
    \/ ExecFreeOld /\ UNCHANGED notExec
    \/ ExecBad /\ UNCHANGED notExec

SpecExec == Init /\ [][NextExec]_vars

\* the page tables that are allocated
LivePts == {q \in PtIds : epts[q].live}

(***************************************************************************)
(* C17: an exec that returned -1 has left the caller's struct proc         *)
(* (pagetable, sz, epc, sp, a1, name, open files) as it was at the call    *)
(* and the caller's page table as the only one allocated; struct proc      *)
(* changes only at the a1/name lines and at the commit, after which exec   *)
(* cannot fail; the caller's page table is never written and is freed      *)
(* only once p->pagetable is the new one.                                  *)
(***************************************************************************)
ExecAllOrNothing ==
    /\ [](ex.pc = "idle" /\ ex.ret = -1 =>
             /\ eproc = ex.saved
             /\ LivePts = {eproc.pagetable})
    /\ [][/\ eproc' # eproc => ex.pc \in {"a1", "commit"}
          /\ ex.pc \in {"a1", "commit", "freeold"} => ex'.pc # "bad"
          /\ epts'[eproc.pagetable] = epts[eproc.pagetable]
          /\ \A q \in PtIds :
                epts[q].live /\ ~epts'[q].live =>
                    \/ ex.pc = "bad" /\ q = ex.pagetable /\ q # eproc.pagetable
                    \/ ex.pc = "freeold" /\ q = ex.saved.pagetable
                          /\ eproc.pagetable = ex.pagetable]_vars

\* after an exec that succeeded, an exec has failed at the copyout of the
\* argv array, its segments and stack already mapped
ExecFailWitness ==
    /\ ex.pc = "idle" /\ ex.ret = -1 /\ ex.why = "copyout"
    /\ ex.argc = MAXARG /\ ex.sz = 3 * PGSIZE
    /\ eproc.pagetable = 2 /\ eproc.name = "new"


(***************************************************************************)
(* C18: a log_write of a block already named in block[0..n) leaves n and   *)
(* the buffer's reference count as they were; a log_write of a block not   *)
(* yet named puts it in slot n, adds one to n and one reference (the pin); *)
(* the named blocks are pairwise distinct in every state.                  *)
(***************************************************************************)
LogAbsorption ==
    /\ [](\A i, j \in 1..log.lh.n : i # j => log.lh.block[i] # log.lh.block[j])
    /\ [][\A p \in Procs :
            proc[p].pc = "write" /\ proc'[p].pc = "release" /\ ~panicked'
            => LET b == proc[p].b
                   blockno == buf[b].blockno
               IN IF blockno \in Named(log.lh)
                  THEN /\ log'.lh.n = log.lh.n
                       /\ log'.lh.block = log.lh.block
                       /\ buf'[b].refcnt = buf[b].refcnt
                  ELSE /\ log'.lh.n = log.lh.n + 1
                       /\ log'.lh.block[log.lh.n + 1] = blockno
                       /\ buf'[b].refcnt = buf[b].refcnt + 1]_vars

\* the second log_write of one block in a transaction has returned: two
\* modifications, one slot, one pin
LogAbsorptionWitness ==
    \E p \in Procs :
        /\ proc[p].pc = "release" /\ stamp = 2
        /\ log.lh.n = 1 /\ log.lh.block[1] = buf[proc[p].b].blockno
        /\ buf[proc[p].b].refcnt = 2
        /\ log.outstanding >= 1


\* what the sleep lock's specification leaves alone
notSleep == <<cacheVars, logVars, bioVars, pipeVars, memVars, spinVars,
              execVars, trapVars>>

NextSleep ==
    \/ \E p \in SlpProcs : AcquiresleepCall(p) /\ UNCHANGED notSleep
    \/ \E p \in SlpProcs : AcquiresleepSpin(p) /\ UNCHANGED notSleep
    \/ \E p \in SlpProcs : AcquiresleepCheck(p) /\ UNCHANGED notSleep
    \/ \E p \in SlpProcs : AcquiresleepSleep(p) /\ UNCHANGED notSleep
    \/ \E p \in SlpProcs : AcquiresleepReturn(p) /\ UNCHANGED notSleep
    \/ \E p \in SlpProcs : ReleasesleepSpin(p) /\ UNCHANGED notSleep
    \/ \E p \in SlpProcs : ReleasesleepClear(p) /\ UNCHANGED notSleep
    \/ \E p \in SlpProcs : ReleasesleepWakeup(p) /\ UNCHANGED notSleep
    \/ \E p \in SlpProcs : ReleasesleepReturn(p) /\ UNCHANGED notSleep

\* a step of process p inside acquiresleep or releasesleep, or its call of
\* releasesleep on the lock it holds
SlpRuns(p) ==
    /\ \/ AcquiresleepSpin(p) \/ AcquiresleepCheck(p) \/ AcquiresleepSleep(p)
       \/ AcquiresleepReturn(p) \/ ReleasesleepSpin(p) \/ ReleasesleepClear(p)
       \/ ReleasesleepWakeup(p) \/ ReleasesleepReturn(p)
    /\ UNCHANGED notSleep

SpecSleep == Init /\ [][NextSleep]_vars

\* fair scheduling: a runnable process inside a call runs, and a holder
\* calls releasesleep
SpecSleepFair == SpecSleep /\ \A p \in SlpProcs : WF_vars(SlpRuns(p))

\* what the trap specification leaves alone
notTrap == <<cacheVars, logVars, bioVars, pipeVars, memVars, spinVars,
             execVars, sleepVars>>

NextTrap ==
    \/ \E cause \in TrapCauses :
          ut.n < MaxTrap /\ UserTraps(cause) /\ UNCHANGED notTrap
    \/ UsertrapStvec /\ UNCHANGED notTrap
    \/ UsertrapEpc /\ UNCHANGED notTrap
    \/ UsertrapSysKilled /\ UNCHANGED notTrap
    \/ UsertrapSysEpc /\ UNCHANGED notTrap
    \/ UsertrapIntrOn /\ UNCHANGED notTrap
    \/ \E kills, exits \in BOOLEAN :
          UsertrapSyscall(kills, exits) /\ UNCHANGED notTrap
    \/ UsertrapDevintr /\ UNCHANGED notTrap
    \/ UsertrapKilled /\ UNCHANGED notTrap
    \/ UsertrapYield /\ UNCHANGED notTrap
    \/ UsertrapretIntrOff /\ UNCHANGED notTrap
    \/ UsertrapretStvec /\ UNCHANGED notTrap
    \/ UsertrapretSepc /\ UNCHANGED notTrap
    \/ Userret /\ UNCHANGED notTrap
    \/ Kill /\ UNCHANGED notTrap
    \/ KernelIntr /\ UNCHANGED notTrap

SpecTrap == Init /\ [][NextTrap]_vars

\* begin_op returns to process p in this step
BeginOpReturns(p) ==
    /\ proc[p].pc \in {"idle", "begin"}
    /\ proc'[p].pc = "op"

\* log_write returns to process p in this step
LogWriteReturns(p) ==
    /\ proc[p].pc = "write"
    /\ proc'[p].pc = "release"

(***************************************************************************)
(* C20: log.outstanding is never negative, and it is 0 whenever            *)
(* log.committing is set; no begin_op returns while committing is set; no  *)
(* log_write runs between the start of a commit and the clearing of        *)
(* committing, and in that interval the in-memory header changes only when *)
(* the committing end_op itself sets n to 0 in commit().                   *)
(***************************************************************************)
LogAdmission ==
    /\ [](log.outstanding >= 0)
    /\ [](log.committing = 1 => log.outstanding = 0)
    /\ [][\A p \in Procs : BeginOpReturns(p) => log.committing = 0]_vars
    /\ [][\A p \in Procs : LogWriteReturns(p) => log.committing = 0]_vars
    /\ [][(log.committing = 1 /\ log'.committing = 1 /\ log'.lh # log.lh)
            => /\ \E p \in Procs : proc[p].pc = "clear_head"
               /\ log'.lh = [log.lh EXCEPT !.n = 0]]_vars

\* a commit of a non-empty transaction is installing its blocks while the
\* other process, whose begin_op found committing set, sleeps in begin_op
LogAdmissionWitness ==
    \E p, q \in Procs :
        /\ p # q /\ ~panicked /\ boot.pc = "run"
        /\ log.committing = 1 /\ log.outstanding = 0 /\ log.lh.n > 0
        /\ proc[p].pc = "install"
        /\ proc[q].pc = "begin_sleep"


\* process p is about to call log_write on a block the header does not name
LogWriteAppends(p) ==
    /\ proc[p].pc = "write"
    /\ buf[proc[p].b].blockno \notin Named(log.lh)

(***************************************************************************)
(* C21: with every operation logging at most MAXOPBLOCKS distinct blocks,  *)
(* the in-memory n never exceeds LOGSIZE under any interleaving: a         *)
(* log_write that has to append finds n < LOGSIZE; and begin_op returns    *)
(* only with n + outstanding * MAXOPBLOCKS <= LOGSIZE after its increment. *)
(***************************************************************************)
LogReservation ==
    /\ [](log.lh.n <= LOGSIZE)
    /\ [](\A p \in Procs :
            (~panicked /\ LogWriteAppends(p)) => log.lh.n < LOGSIZE)
    /\ [][\A p \in Procs :
            BeginOpReturns(p) =>
                /\ log'.outstanding = log.outstanding + 1
                /\ log'.lh.n + log'.outstanding * MAXOPBLOCKS <= LOGSIZE]_vars

\* the log is full: the last operation admitted has appended the block
\* that fills slot LOGSIZE, while the other process, which found no room
\* for one more operation, sleeps in begin_op
LogReservationWitness ==
    \E p, q \in Procs :
        /\ p # q /\ ~panicked
        /\ proc[p].pc = "release"
        /\ log.lh.n = LOGSIZE /\ log.lh.block[LOGSIZE] = buf[proc[p].b].blockno
        /\ log.outstanding = 1 /\ log.committing = 0
        /\ proc[q].pc = "begin_sleep"

(***************************************************************************)
(* C22 as stated: log_write(b) is fatal exactly when no operation is open  *)
(* or when recording b would make n exceed LOGSIZE or size - 1; a          *)
(* log_write of a block the header already names is not fatal on size      *)
(* grounds, even with n equal to LOGSIZE or size - 1.                      *)
(***************************************************************************)
LogWriteFatalExactly ==
    [][\A p \in Procs :
          LogWriteReturns(p) =>
              LET blockno == buf[proc[p].b].blockno
                  n1 == IF blockno \in Named(log.lh) THEN log.lh.n
                                                     ELSE log.lh.n + 1
              IN panicked' <=> \/ log.outstanding < 1
                               \/ n1 > LOGSIZE
                               \/ n1 > NLOG - 1]_vars

\* slot i of the header has been installed by the commit in progress
Installed(i) ==
    \E p \in Procs : \/ (proc[p].pc = "install" /\ i <= proc[p].tail)
                      \/ proc[p].pc = "clear_head"

\* the blocks log_write has appended and install_trans has not yet written
\* to their home location
PinnedBlocks == {log.lh.block[i] : i \in {j \in 1..log.lh.n : ~Installed(j)}}

\* the number of processes between bget's return of buffer b and their
\* brelse of it
HeldBy(b) ==
    Cardinality({p \in Procs : /\ proc[p].pc \in {"lock", "write", "release"}
                               /\ proc[p].b = b})

(***************************************************************************)
(* C23: from the log_write that appends a block to block[] until           *)
(* install_trans has written it home, a buffer holds that block with       *)
(* refcnt >= 1 and the transaction's contents, and bget does not repurpose *)
(* it, so write_log copies the in-cache contents to the log; every         *)
(* buffer's refcnt is the number of processes holding it plus one exactly  *)
(* when its block is so pinned (each pin of log_write is released by one   *)
(* bunpin of install_trans(0)); install_trans(1) performs no bunpin: in    *)
(* recovery every refcnt is 0 between its steps.                           *)
(***************************************************************************)
PinInvariant ==
    /\ []((boot.pc = "run" /\ ~panicked) =>
            /\ \A blk \in PinnedBlocks :
                  \E b \in Bufs : /\ buf[b].dev = DEV /\ buf[b].blockno = blk
                                  /\ buf[b].refcnt >= 1 /\ buf[b].valid = 1
                                  /\ buf[b].data = tx.post[blk]
            /\ \A b \in Bufs :
                  buf[b].refcnt = HeldBy(b)
                      + (IF buf[b].blockno \in PinnedBlocks THEN 1 ELSE 0))
    /\ []((boot.pc # "run" /\ ~panicked) => \A b \in Bufs : buf[b].refcnt = 0)
    /\ [][\A b \in Bufs :
            (boot.pc = "run" /\ boot'.pc = "run" /\ ~panicked'
             /\ buf[b].blockno \in PinnedBlocks)
            => buf'[b].blockno = buf[b].blockno]_vars
    /\ [][\A p \in Procs :
            (proc[p].pc = "write_log" /\ proc'[p] # proc[p]
             /\ crashes' = crashes /\ ~panicked')
            => LET blk == log.lh.block[proc[p].tail + 1]
               IN disk'[LogStart + proc[p].tail + 1] = tx.post[blk]]_vars

\* a commit has installed the first of two logged blocks and unpinned its
\* buffer; the second is still pinned
PinWitness ==
    \E p \in Procs :
        /\ ~panicked /\ boot.pc = "run"
        /\ proc[p].pc = "install" /\ proc[p].tail = 1 /\ log.lh.n = 2
        /\ \E b1, b2 \in Bufs :
              /\ buf[b1].blockno = log.lh.block[1] /\ buf[b1].refcnt = 0
              /\ buf[b2].blockno = log.lh.block[2] /\ buf[b2].refcnt = 1
              /\ buf[b2].data = tx.post[log.lh.block[2]]
              /\ disk[log.lh.block[2]] # tx.post[log.lh.block[2]]

\* the processes between the return of bread for buffer b and their brelse
BufHolders(b) == {p \in Procs : b \in bp[p].held}

(***************************************************************************)
(* C24: under any interleaving of bread and brelse, at most one process at *)
(* a time is between the return of bread for a buffer and its brelse of    *)
(* that buffer: bread returns with the caller holding the sleep lock, and  *)
(* the lock has one holder; bwrite and brelse panic when the caller does   *)
(* not hold the buffer's sleep lock, and only then.                        *)
(***************************************************************************)
BufferExclusion ==
    /\ [](\A b \in Bufs : Cardinality(BufHolders(b)) <= 1)
    /\ [](\A b \in Bufs : \A p \in BufHolders(b) :
            buf[b].locked = p /\ buf[b].refcnt >= 1 /\ buf[b].valid = 1)
    /\ [][\A p \in Procs :
            (bp[p].pc = "lock" /\ bp'[p].pc = "idle")
            => /\ bp'[p].held = bp[p].held \cup {bp[p].b}
               /\ buf[bp[p].b].locked = 0 /\ buf'[bp[p].b].locked = p]_vars
    /\ [][\A p \in Procs :
            (bp[p].pc = "bwrite" /\ bp'[p].pc = "idle")
            => (panicked' <=> bp[p].b \notin bp[p].held)]_vars
    /\ [][\A p \in Procs :
            (bp[p].pc = "idle" /\ bp'[p].pc = "brelse")
            => (panicked' <=> bp'[p].b \notin bp[p].held)]_vars

\* one process holds a buffer and has written it to disk while the other,
\* whose bget returned the same buffer, waits for its sleep lock
BufferExclusionWitness ==
    \E p, q \in Procs :
        /\ p # q /\ ~panicked
        /\ bp[q].pc = "lock" /\ bp[q].b \in bp[p].held
        /\ buf[bp[q].b].locked = p /\ buf[bp[q].b].refcnt = 2
        /\ Len(dtrace) = 1 /\ dtrace[1].blk = buf[bp[q].b].blockno

\* process p has called acquiresleep and has not got the lock yet
SlpBlocked(p) == sp[p] \in {"as_acquire", "as_check", "as_sleep", "parked",
                            "as_wake"}

\* process q takes the sleep lock in this step
SlpTakes(q) == sp[q] = "as_check" /\ sp'[q] = "as_release"

(***************************************************************************)
(* C25: no process is parked on a sleep lock that is free unless the       *)
(* wakeup of the releasesleep that freed it is still to come; and under    *)
(* fair scheduling, with every holder calling releasesleep, a process      *)
(* blocked in acquiresleep returns holding the lock, provided the others   *)
(* do not go on taking the lock forever.                                   *)
(***************************************************************************)
SleepNoLostWakeup ==
    /\ [](\A p \in SlpProcs :
            sp[p] = "parked" =>
                (sl.locked = 1 \/ \E q \in SlpProcs : sp[q] = "rs_wakeup"))
    /\ [](\A p \in SlpProcs : sp[p] = "holding" => sl.pid = p)
    /\ \A p \in SlpProcs :
          (<>[][\A q \in SlpProcs \ {p} : ~SlpTakes(q)]_vars)
          => (SlpBlocked(p) ~> sp[p] = "holding")

\* two processes are parked on the lock a third one holds
SleepWitness ==
    \E p \in SlpProcs :
        /\ sp[p] = "holding" /\ sl.locked = 1 /\ sl.pid = p
        /\ \A q \in SlpProcs \ {p} : sp[q] = "parked"

\* the process is in usertrapret or on its way through userret
InUsertrapret == ut.pc \in {"intr_off", "ret_stvec", "ret_sepc", "userret"}

(***************************************************************************)
(* C26: on every path through usertrap the killed flag is tested after the *)
(* dispatch step and before usertrapret; if it is set at that test the     *)
(* process exits and usertrapret is not reached on that trap; a trap with  *)
(* an unexpected cause sets the killed flag and never returns to user      *)
(* mode.                                                                   *)
(***************************************************************************)
KilledChecked ==
    /\ [](InUsertrapret => ut.tested)
    /\ [][(ut.pc = "killed" /\ ut'.pc # "killed")
            => /\ ut'.tested
               /\ IF ut.killed THEN ut'.pc = "exited"
                                ELSE ut'.pc \in {"yield", "intr_off"}]_vars
    /\ [][ut.pc = "exited" => ut'.pc = "exited"]_vars
    /\ [][(ut'.pc = "killed" /\ ut.pc # "killed")
            => /\ ut.pc \in {"syscall", "devintr"}
               /\ ~ut'.tested
               /\ ut.cause = "fault" => ut'.killed]_vars
    /\ [](ut.cause = "fault" => ut.pc \notin {"user", "yield"} /\ ~InUsertrapret)

\* the second trap of the process had an unexpected cause: the test found
\* the killed flag set and the process has exited, after a first trap that
\* returned to user mode
KilledCheckedWitness ==
    /\ ut.pc = "exited" /\ ut.cause = "fault" /\ ut.tested /\ ut.killed
    /\ ut.n = 2 /\ ut.stvec = "kernelvec"

(***************************************************************************)
(* C27: in supervisor mode, whenever interrupts are enabled stvec is       *)
(* kernelvec, so no interrupt taken in the kernel enters through the user  *)
(* vector; usertrap has installed kernelvec and saved sepc in the trap     *)
(* frame (advanced by 4 for a system call) when it enables interrupts;     *)
(* usertrapret disables interrupts before it installs the user vector and  *)
(* they stay disabled until the return to user mode, which resumes at the  *)
(* saved pc.                                                               *)
(***************************************************************************)
TrapVector ==
    /\ []((ut.mode = "S" /\ ut.intr) => ut.stvec = "kernelvec")
    /\ [](~ut.wrongvec)
    /\ [][(ut.mode = "S" /\ ~ut.intr /\ ut'.mode = "S" /\ ut'.intr)
            => /\ ut.stvec = "kernelvec"
               /\ ut.cause = "syscall"
               /\ ut.epc = ut.upc + 4]_vars
    /\ [](ut.pc \in {"ret_stvec", "ret_sepc", "userret"} => ~ut.intr)
    /\ [](ut.stvec = "uservec" =>
            ut.pc \in {"user", "usertrap", "ret_sepc", "userret", "exited"})
    /\ [][(ut.pc = "userret" /\ ut'.pc = "user")
            => ut'.upc = IF ut.cause = "syscall" THEN ut.upc + 4
                                                 ELSE ut.upc]_vars

\* in a system call with interrupts enabled, a device interrupt has
\* overwritten sepc; the trap frame holds the address after the ecall
TrapVectorWitness ==
    /\ ut.pc = "killed" /\ ut.cause = "syscall" /\ ut.intr
    /\ ut.stvec = "kernelvec"
    /\ ut.sepc = KernelPc /\ ut.epc = ut.upc + 4

\* position of buffer b in sequence s (b occurs in s)
PosIn(s, b) == CHOOSE i \in 1..Len(s) : s[i] = b

\* v is the oldest of the buffers free by the order s (most recent first):
\* one that s does not list when there is one, else the last listed
OldestOf(v, free, s) ==
    LET unlisted == {b \in free : \A i \in 1..Len(s) : s[i] # b}
    IN IF unlisted # {} THEN v \in unlisted
       ELSE \A b \in free : PosIn(s, b) <= PosIn(s, v)

\* process p's bget returns in this step, having found no buffer with the
\* block it asked for
BgetMisses(p) ==
    /\ bp[p].pc = "idle" /\ bp'[p].pc = "lock" /\ ~panicked'
    /\ \A b \in Bufs :
          ~(buf[b].dev = DEV /\ buf[b].blockno = buf'[bp'[p].b].blockno)

\* what bget does on a miss, the victim being the oldest by the order s
EvictsOldest(p, s) ==
    LET v == bp'[p].b
        free == {b \in Bufs : buf[b].refcnt = 0}
    IN /\ v \in free
       /\ buf'[v].valid = 0 /\ buf'[v].refcnt = 1
       /\ OldestOf(v, free, s)

(***************************************************************************)
(* C19 as stated: on a miss bget repurposes the buffer whose refcnt fell   *)
(* to 0 least recently among those with refcnt 0 (never-used ones being    *)
(* oldest), clears valid, sets refcnt to 1; it never takes a buffer with   *)
(* refcnt > 0 and panics only when every buffer has refcnt > 0.            *)
(***************************************************************************)
LruByRefcntZero ==
    /\ [][\A p \in Procs : BgetMisses(p) => EvictsOldest(p, bhist.zero)]_vars
    /\ [][~panicked /\ panicked' => \A b \in Bufs : buf[b].refcnt > 0]_vars

(***************************************************************************)
(* C19: on a miss bget repurposes, among the buffers with refcnt 0, the    *)
(* one that a brelse moved to the head of the list least recently (a       *)
(* buffer no brelse has brought to refcnt 0 being oldest), clears valid,   *)
(* sets refcnt to 1; it never takes a buffer with refcnt > 0 and panics    *)
(* only when every buffer has refcnt > 0.  So after bread/brelse of three  *)
(* blocks in turn with three buffers, the bread of a fourth evicts the     *)
(* first.                                                                  *)
(***************************************************************************)
(* C29: with NBUF == LOGSIZE, no bread of commit() (in write_log,          *)
(* write_head or install_trans) ends in panic("bget: no buffers"): no step *)
(* of a process inside commit halts the kernel.  No process holds a buffer *)
(* during commit, since outstanding is 0 and an operation releases its     *)
(* buffer before end_op.                                                   *)
(***************************************************************************)
CommitFindsBuffers ==
    [][\A p \in Procs :
          proc[p].pc \in CommitPcs /\ proc'[p] # proc[p] => ~panicked']_vars


\* process p is inside begin_op, asleep on the log channel or woken
BeginOpBlocked(p) == proc[p].pc \in {"begin_sleep", "begin"}

(***************************************************************************)
(* C30: every process blocked in begin_op returns from it later; an end_op *)
(* that does not commit wakes the sleepers of the log channel in the step  *)
(* that lowers outstanding, an end_op that commits wakes them in the step  *)
(* that clears committing, and commit() leaves n == 0.                     *)
(***************************************************************************)
LogAdmissionLive ==
    /\ \A p \in Procs : BeginOpBlocked(p) ~> (proc[p].pc = "op")
    /\ [][(log'.outstanding < log.outstanding \/ log'.committing < log.committing)
            /\ log'.committing = 0 /\ ~panicked'
            => \A q \in Procs : proc'[q].pc # "begin_sleep"]_vars
    /\ [][log'.committing < log.committing => log.lh.n = 0]_vars


(***************************************************************************)
(* C28: exec goes to bad at the argument-count test exactly when argv has  *)
(* more than MAXARG non-null entries (and no earlier failure), and every   *)
(* store into ustack, the terminator ustack[argc] = 0 included, has an     *)
(* index in 0..MAXARG-1: the stores made so far, ex.ustack, number at most *)
(* MAXARG.                                                                 *)
(***************************************************************************)
ExecArgLimit ==
    /\ [](Len(ex.ustack) <= MAXARG)
    /\ [][/\ (ex.pc = "args" /\ ex'.pc = "bad" /\ ex'.why = "maxarg")
                => ex.nargs > MAXARG
          /\ (ex.pc = "args" /\ ex.argc = MAXARG /\ ex.nargs > MAXARG)
                => (ex'.pc = "bad" /\ ex'.why = "maxarg")
          /\ (ex.pc = "args" /\ ex'.pc = "a1") => ex.nargs <= MAXARG]_vars


(***************************************************************************)
LruByBrelse ==
    /\ [][\A p \in Procs : BgetMisses(p) => EvictsOldest(p, bhist.rel)]_vars
    /\ [][~panicked /\ panicked' => \A b \in Bufs : buf[b].refcnt > 0]_vars

\* three blocks were read and released in turn, and the bget of a fourth
\* has taken the buffer released first
LruWitness ==
    \E p \in Procs :
        LET v == bp[p].b
        IN /\ bp[p].pc = "lock" /\ ~panicked
           /\ buf[v].refcnt = 1 /\ buf[v].valid = 0
           /\ Len(bhist.rel) = NBUF /\ bhist.rel[NBUF] = v
           /\ bhist.zero = SubSeq(bhist.rel, 1, NBUF - 1)
           /\ \A b \in Bufs \ {v} : buf[b].refcnt = 0 /\ buf[b].valid = 1
           /\ \A b1, b2 \in Bufs : b1 # b2 => buf[b1].blockno # buf[b2].blockno


\* the values of i in a call of pipewrite
PipeIs == 0..MaxN

\* writer w sleeps in pipewrite and the ring has room: a piperead has
\* consumed a byte since w went to sleep
WriterHasRoom(w) == pp[w].pc = "wsleep" /\ ~PipeFull(pipe)

\* reader r sleeps in piperead and the ring holds a byte or the write end
\* is closed
ReaderHasData(r) ==
    pp[r].pc = "rsleep" /\ (~PipeEmpty(pipe) \/ pipe.writeopen = 0)

\* no writer asleep while every reader is asleep
NoPipeDeadlock ==
    ~(/\ \E w \in AllWriters : pp[w].pc = "wsleep"
      /\ \A r \in AllReaders : pp[r].pc = "rsleep")

====
